---------------------------- MODULE Spec2Model ----------------------------
(***************************************************************************)
(* Triage engine of the agentic SOC: risk scoring, priority               *)
(* classification, entity-overlap correlation over the recent-alerts      *)
(* window, and the decision table.                                        *)
(*                                                                         *)
(* Three implementations of the engine live in the repository:            *)
(*   agent            src/agents/alert_triage/agent.py          (rule based, *)
(*                    AlertTriageAgent with its own _recent_alerts)        *)
(*   framework        src/agents/alert_triage/agent_framework.py        *)
(*                    (AlertTriageTools: tools over _recent_alerts)       *)
(*   scenario-aware   src/agents/alert_triage_agent.py                    *)
(*                    (AlertTriageTools.calculate_risk_score with         *)
(*                    mitre_scenario_counts and random placeholders)      *)
(***************************************************************************)
EXTENDS Integers, Sequences, FiniteSets, TLC

VARIABLES
    impl,           \* which class the instance is: "agent", "framework",
                    \* "v2" or "ai_function"
    recent_alerts,  \* self._recent_alerts: list of references to alert objects
    stored,         \* history: every alert ever appended to _recent_alerts, in order
    result,         \* what the last call on the instance returned
    audit_logs,     \* AuditService._audit_logs: the entries logged for this agent
    counters,       \* the metrics counters the agent increments
    steps,          \* number of calls made on the instance since Init
    tasks,          \* the triage_alert coroutines started on the instance: each
                    \* one's alert, position and local variables
    loader,         \* a FoundryAgentLoader: its _agent and _agent_factory
    natives,        \* every FoundryNativeAgent constructed so far, in order
    _alert_triage_agent, \* src.agents._alert_triage_agent: None or the index
                    \* in natives of the agent the module holds
    score_in,       \* arguments of a scoring call
    score_out,      \* what the scoring call returned
    decide_in,      \* arguments of a decision / classification call
    decide_out      \* what that call returned

vars == <<impl, recent_alerts, stored, result, audit_logs, counters, steps,
          tasks, loader, natives, _alert_triage_agent, score_in, score_out, decide_in, decide_out>>

-----------------------------------------------------------------------------
(* Python helpers                                                          *)

Min(a, b) == IF a <= b THEN a ELSE b

\* dict.get(key, default)
DictGet(d, key, default) == IF key \in DOMAIN d THEN d[key] ELSE default

\* int(x / 10) for an int x: true division, then truncation toward zero
IntDiv10(x) == IF x >= 0 THEN x \div 10 ELSE -((-x) \div 10)

\* list[-n:]
LastN(s, n) == IF Len(s) <= n THEN s ELSE SubSeq(s, Len(s) - n + 1, Len(s))

\* list[:n]
FirstN(s, n) == IF Len(s) <= n THEN s ELSE SubSeq(s, 1, n)

\* an optional argument: None is <<>>, a supplied value v is <<v>>
None == <<>>

Some(v) == <<v>>

\* str(d) of a dict d: its repr, which writes keys and strings in single quotes
py_str(d) == [quotes |-> "single", of |-> d]

\* json.loads(text): the value, or None where it raises JSONDecodeError; JSON
\* strings and keys are in double quotes
json_loads(text) == IF text.quotes = "double" THEN Some(text.of) ELSE None

-----------------------------------------------------------------------------
(* Risk scoring                                                            *)

\* severity_scores with the Low and Medium contributions exchanged
severity_scores_low_medium_swapped ==
    [High |-> 30, Medium |-> 10, Low |-> 20, Informational |-> 5]

\* severity_scores of all three variants
severity_scores ==
    [High |-> 30, Medium |-> 20, Low |-> 10, Informational |-> 5]

\* _calculate_risk_score without the asset and user placeholders
_calculate_risk_score_without_placeholders(alert) ==
    LET s1 == DictGet(severity_scores, alert.Severity, 10)
        entity_count == Len(alert.Entities)
        s2 == s1 + Min(entity_count * 2, 10)
        mitre_techniques == DictGet(alert.ExtendedProperties, "MitreTechniques", <<>>)
        s3 == IF mitre_techniques # <<>>
              THEN s2 + Min(Len(mitre_techniques) * 5, 20)
              ELSE s2
        confidence == DictGet(alert.ExtendedProperties, "ConfidenceScore", 0)
        score == s3 + IntDiv10(confidence)
    IN  Min(score, 100)

\* AlertTriageAgent._calculate_risk_score(alert)
_calculate_risk_score(alert) ==
    LET s1 == DictGet(severity_scores, alert.Severity, 10)
        entity_count == Len(alert.Entities)
        s2 == s1 + Min(entity_count * 2, 10)
        mitre_techniques == DictGet(alert.ExtendedProperties, "MitreTechniques", <<>>)
        s3 == IF mitre_techniques # <<>>
              THEN s2 + Min(Len(mitre_techniques) * 5, 20)
              ELSE s2
        s4 == s3 + 15
        s5 == s4 + 5
        confidence == DictGet(alert.ExtendedProperties, "ConfidenceScore", 0)
        score == s5 + IntDiv10(confidence)
    IN  Min(score, 100)

\* calculate_risk_score with the MITRE weights of the scenario-aware variant
\* (3 per technique, capped at 15)
calculate_risk_score_weights_mixed(severity, entity_count, mitre_techniques, confidence_score) ==
    LET severity_score == DictGet(severity_scores, severity, 10)
        entity_score == Min(entity_count * 2, 10)
        mitre_score == Min(Len(mitre_techniques) * 3, 15)
        asset_score == 15
        user_score == 5
        confidence_contribution == IntDiv10(confidence_score)
        score == severity_score + entity_score + mitre_score + asset_score
                 + user_score + confidence_contribution
        final_score == Min(score, 100)
    IN  [risk_score |-> final_score,
         breakdown |-> [severity |-> severity_score,
                        entities |-> entity_score,
                        mitre_techniques |-> mitre_score,
                        asset_criticality |-> asset_score,
                        user_risk |-> user_score,
                        confidence |-> confidence_contribution]]

\* AlertTriageTools.calculate_risk_score of agent_framework.py
calculate_risk_score(severity, entity_count, mitre_techniques, confidence_score) ==
    LET severity_score == DictGet(severity_scores, severity, 10)
        entity_score == Min(entity_count * 2, 10)
        mitre_score == Min(Len(mitre_techniques) * 5, 20)
        asset_score == 15
        user_score == 5
        confidence_contribution == IntDiv10(confidence_score)
        score == severity_score + entity_score + mitre_score + asset_score
                 + user_score + confidence_contribution
        final_score == Min(score, 100)
    IN  [risk_score |-> final_score,
         breakdown |-> [severity |-> severity_score,
                        entities |-> entity_score,
                        mitre_techniques |-> mitre_score,
                        asset_criticality |-> asset_score,
                        user_risk |-> user_score,
                        confidence |-> confidence_contribution]]

\* the loop "for count in mitre_scenario_counts" of alert_triage_agent.py
RECURSIVE scenario_bonus_loop(_, _)
scenario_bonus_loop(counts, scenario_bonus) ==
    IF counts = <<>> THEN scenario_bonus
    ELSE LET count == Head(counts)
             b == IF count >= 5 THEN scenario_bonus + 3
                  ELSE IF count >= 3 THEN scenario_bonus + 2
                  ELSE IF count >= 1 THEN scenario_bonus + 1
                  ELSE scenario_bonus
         IN  scenario_bonus_loop(Tail(counts), b)

\* scenario_bonus_of without "scenario_bonus = min(scenario_bonus, 10)"
scenario_bonus_of_uncapped(mitre_scenario_counts) ==
    IF mitre_scenario_counts # None /\ mitre_scenario_counts[1] # <<>>
    THEN scenario_bonus_loop(mitre_scenario_counts[1], 0)
    ELSE 0

\* scenario_bonus of alert_triage_agent.py; mitre_scenario_counts is None or Some(list)
scenario_bonus_of(mitre_scenario_counts) ==
    IF mitre_scenario_counts # None /\ mitre_scenario_counts[1] # <<>>
    THEN Min(scenario_bonus_loop(mitre_scenario_counts[1], 0), 10)
    ELSE 0

\* calculate_risk_score_scenario returning score instead of min(score, 100)
calculate_risk_score_scenario_unclamped(severity, entity_count, mitre_techniques, confidence_score, mitre_scenario_counts, asset_score, user_score) ==
    LET severity_score == DictGet(severity_scores, severity, 10)
        entity_score == Min(entity_count * 2, 10)
        base_mitre_score == Min(Len(mitre_techniques) * 3, 15)
        scenario_bonus == scenario_bonus_of(mitre_scenario_counts)
        mitre_score == base_mitre_score + scenario_bonus
        confidence_contribution == IntDiv10(confidence_score)
        score == severity_score + entity_score + mitre_score + asset_score
                 + user_score + confidence_contribution
    IN  [risk_score |-> score,
         breakdown |-> [severity |-> severity_score,
                        entities |-> entity_score,
                        mitre_techniques |-> mitre_score,
                        mitre_base |-> base_mitre_score,
                        mitre_scenario_bonus |-> scenario_bonus,
                        asset_criticality |-> asset_score,
                        user_risk |-> user_score,
                        confidence |-> confidence_contribution]]

\* calculate_risk_score_scenario adding base_mitre_score, not mitre_score, to
\* the score
calculate_risk_score_scenario_bonus_not_added(severity, entity_count, mitre_techniques, confidence_score, mitre_scenario_counts, asset_score, user_score) ==
    LET severity_score == DictGet(severity_scores, severity, 10)
        entity_score == Min(entity_count * 2, 10)
        base_mitre_score == Min(Len(mitre_techniques) * 3, 15)
        scenario_bonus == scenario_bonus_of(mitre_scenario_counts)
        mitre_score == base_mitre_score + scenario_bonus
        confidence_contribution == IntDiv10(confidence_score)
        score == severity_score + entity_score + base_mitre_score + asset_score
                 + user_score + confidence_contribution
        final_score == Min(score, 100)
    IN  [risk_score |-> final_score,
         breakdown |-> [severity |-> severity_score,
                        entities |-> entity_score,
                        mitre_techniques |-> mitre_score,
                        mitre_base |-> base_mitre_score,
                        mitre_scenario_bonus |-> scenario_bonus,
                        asset_criticality |-> asset_score,
                        user_risk |-> user_score,
                        confidence |-> confidence_contribution]]

\* AlertTriageTools.calculate_risk_score of alert_triage_agent.py; asset_score and
\* user_score are the values random.randint(5, 20) and random.randint(2, 10) return
calculate_risk_score_scenario(severity, entity_count, mitre_techniques, confidence_score, mitre_scenario_counts, asset_score, user_score) ==
    LET severity_score == DictGet(severity_scores, severity, 10)
        entity_score == Min(entity_count * 2, 10)
        base_mitre_score == Min(Len(mitre_techniques) * 3, 15)
        scenario_bonus == scenario_bonus_of(mitre_scenario_counts)
        mitre_score == base_mitre_score + scenario_bonus
        confidence_contribution == IntDiv10(confidence_score)
        score == severity_score + entity_score + mitre_score + asset_score
                 + user_score + confidence_contribution
        final_score == Min(score, 100)
    IN  [risk_score |-> final_score,
         breakdown |-> [severity |-> severity_score,
                        entities |-> entity_score,
                        mitre_techniques |-> mitre_score,
                        mitre_base |-> base_mitre_score,
                        mitre_scenario_bonus |-> scenario_bonus,
                        asset_criticality |-> asset_score,
                        user_risk |-> user_score,
                        confidence |-> confidence_contribution]]

-----------------------------------------------------------------------------
(* Priority classification and decision table                              *)

\* _determine_priority raising a High-severity alert by one tier
_determine_priority_by_severity(risk_score, severity) ==
    IF risk_score >= 80 \/ (severity = "High" /\ risk_score >= 60) THEN "Critical"
    ELSE IF risk_score >= 60 \/ (severity = "High" /\ risk_score >= 40) THEN "High"
    ELSE IF risk_score >= 40 THEN "Medium"
    ELSE "Low"

\* _determine_priority with the High tier starting at 70
_determine_priority_high_from_70(risk_score, severity) ==
    IF risk_score >= 80 THEN "Critical"
    ELSE IF risk_score >= 70 THEN "High"
    ELSE IF risk_score >= 40 THEN "Medium"
    ELSE "Low"

\* AlertTriageAgent._determine_priority(risk_score, severity)
_determine_priority(risk_score, severity) ==
    IF risk_score >= 80 THEN "Critical"
    ELSE IF risk_score >= 60 THEN "High"
    ELSE IF risk_score >= 40 THEN "Medium"
    ELSE "Low"

\* _make_triage_decision with the correlation rule starting at 30
_make_triage_decision_correlation_from_30(risk_score, correlated_alerts) ==
    IF risk_score >= 70 THEN "EscalateToIncident"
    ELSE IF risk_score >= 30 /\ correlated_alerts # <<>> THEN "CorrelateWithExisting"
    ELSE IF risk_score < 30 THEN "MarkAsFalsePositive"
    ELSE "RequireHumanReview"

\* AlertTriageAgent._make_triage_decision(risk_score, correlated_alerts);
\* "and correlated_alerts" is the truth value of a list: it is not empty
_make_triage_decision(risk_score, correlated_alerts) ==
    IF risk_score >= 70 THEN "EscalateToIncident"
    ELSE IF risk_score >= 40 /\ correlated_alerts # <<>> THEN "CorrelateWithExisting"
    ELSE IF risk_score < 30 THEN "MarkAsFalsePositive"
    ELSE "RequireHumanReview"

\* make_triage_decision testing the correlation rule before the escalation rule
make_triage_decision_reordered(risk_score, has_correlation) ==
    IF risk_score >= 40 /\ has_correlation
    THEN [decision |-> "CorrelateWithExisting", priority |-> "Medium"]
    ELSE IF risk_score >= 70
    THEN [decision |-> "EscalateToIncident",
          priority |-> IF risk_score >= 80 THEN "Critical" ELSE "High"]
    ELSE IF risk_score < 30
    THEN [decision |-> "MarkAsFalsePositive", priority |-> "Low"]
    ELSE [decision |-> "RequireHumanReview", priority |-> "Medium"]

\* AlertTriageTools.make_triage_decision(risk_score, has_correlation) of
\* agent_framework.py
make_triage_decision(risk_score, has_correlation) ==
    IF risk_score >= 70
    THEN [decision |-> "EscalateToIncident",
          priority |-> IF risk_score >= 80 THEN "Critical" ELSE "High"]
    ELSE IF risk_score >= 40 /\ has_correlation
    THEN [decision |-> "CorrelateWithExisting", priority |-> "Medium"]
    ELSE IF risk_score < 30
    THEN [decision |-> "MarkAsFalsePositive", priority |-> "Low"]
    ELSE [decision |-> "RequireHumanReview", priority |-> "Medium"]

-----------------------------------------------------------------------------
(* Alerts                                                                  *)

\* the alert objects the callers hold, by reference.  a1 and a1b are two objects
\* with the same SystemAlertId; a3 has only an entity without HostName, UserName
\* or IPAddress and no MitreTechniques; a4 names the same user twice and has no
\* ConfidenceScore; a5 has no entities, no MitreTechniques and a ConfidenceScore
\* far below 0 (ExtendedProperties is a Dict[str, Any]).
AlertRefs == {"a1", "a1b", "a2", "a3", "a4", "a5"}

AlertObj ==
    [a1  |-> [SystemAlertId |-> 1, Severity |-> "High",
              Entities |-> << [Type |-> "Host",
                               Properties |-> [HostName |-> "WS-001"]] >>,
              ExtendedProperties |->
                  [MitreTechniques |-> <<"T1059.001", "T1003.001", "T1566", "T1078">>,
                   ConfidenceScore |-> 95]],
     a1b |-> [SystemAlertId |-> 1, Severity |-> "Low",
              Entities |-> << [Type |-> "Account",
                               Properties |-> [UserName |-> "alice"]] >>,
              ExtendedProperties |-> [ConfidenceScore |-> 40]],
     a2  |-> [SystemAlertId |-> 2, Severity |-> "Medium",
              Entities |-> << [Type |-> "Host",
                               Properties |-> [HostName |-> "WS-001",
                                               IPAddress |-> "10.0.0.5"]],
                              [Type |-> "Account",
                               Properties |-> [UserName |-> "alice"]] >>,
              ExtendedProperties |-> [MitreTechniques |-> <<>>,
                                      ConfidenceScore |-> 50]],
     a3  |-> [SystemAlertId |-> 3, Severity |-> "Informational",
              Entities |-> << [Type |-> "File",
                               Properties |-> [FileName |-> "WS-001"]] >>,
              ExtendedProperties |-> [ConfidenceScore |-> 20]],
     a4  |-> [SystemAlertId |-> 4, Severity |-> "Low",
              Entities |-> << [Type |-> "Account",
                               Properties |-> [UserName |-> "alice"]],
                              [Type |-> "Account",
                               Properties |-> [UserName |-> "alice"]],
                              [Type |-> "IP",
                               Properties |-> [IPAddress |-> "10.0.0.9"]] >>,
              ExtendedProperties |-> [MitreTechniques |-> <<"T1078">>]],
     a5  |-> [SystemAlertId |-> 5, Severity |-> "Informational",
              Entities |-> <<>>,
              ExtendedProperties |-> [ConfidenceScore |-> -300]]]

-----------------------------------------------------------------------------
(* Recent-alerts window and correlation                                    *)

\* "if len(self._recent_alerts) > 1000"
RecentAlertsCap == 1000

\* "self._recent_alerts[-100:]"
CorrelationWindow == 100

\* the pairs one entity adds to current_entities / past_entities
entity_pairs(entity) ==
    (IF "HostName" \in DOMAIN entity.Properties
     THEN {<<"host", entity.Properties["HostName"]>>} ELSE {})
    \cup
    (IF "UserName" \in DOMAIN entity.Properties
     THEN {<<"user", entity.Properties["UserName"]>>} ELSE {})
    \cup
    (IF "IPAddress" \in DOMAIN entity.Properties
     THEN {<<"ip", entity.Properties["IPAddress"]>>} ELSE {})

\* current_entities taken from the first entity only
current_entities_first_only(alert) ==
    IF alert.Entities = <<>> THEN {} ELSE entity_pairs(alert.Entities[1])

\* current_entities of AlertTriageAgent._correlate_alerts
current_entities(alert) ==
    UNION {entity_pairs(alert.Entities[i]) : i \in 1..Len(alert.Entities)}

\* past_entities without the UserName and IPAddress pairs
past_entities_hosts_only(past_alert) ==
    {pr \in UNION {entity_pairs(past_alert.Entities[i]) :
                      i \in 1..Len(past_alert.Entities)} : pr[1] = "host"}

\* past_entities of _correlate_alerts and of find_correlated_alerts
past_entities(past_alert) ==
    UNION {entity_pairs(past_alert.Entities[i]) : i \in 1..Len(past_alert.Entities)}

\* the loop going over the whole window instead of its last 100 entries
scanned_whole_window(recent) == recent

\* the part of the window the loop of _correlate_alerts goes over
scanned(recent) == LastN(recent, CorrelationWindow)

\* _correlate_alerts without "if past_alert.SystemAlertId == alert.SystemAlertId:
\* continue"
_correlate_alerts_no_id_check(alert, recent) ==
    LET overlaps(past) ==
            current_entities(alert) \cap past_entities(AlertObj[past]) # {}
    IN  SelectSeq(scanned(recent), overlaps)

\* AlertTriageAgent._correlate_alerts(alert) over self._recent_alerts = recent:
\* the list of the past alerts (references) appended to "correlated"
_correlate_alerts(alert, recent) ==
    LET overlaps(past) ==
            /\ AlertObj[past].SystemAlertId # alert.SystemAlertId
            /\ current_entities(alert) \cap past_entities(AlertObj[past]) # {}
    IN  SelectSeq(scanned(recent), overlaps)

\* append_recent without "if len(self._recent_alerts) > 1000: pop(0)"
append_recent_without_pop(recent, alert_ref) == Append(recent, alert_ref)

\* append_recent evicting with pop() instead of pop(0)
append_recent_pop_last(recent, alert_ref) ==
    LET appended == Append(recent, alert_ref)
    IN  IF Len(appended) > RecentAlertsCap
        THEN SubSeq(appended, 1, Len(appended) - 1) ELSE appended

\* "self._recent_alerts.append(alert); if len > 1000: pop(0)" of triage_alert
append_recent(recent, alert_ref) ==
    LET appended == Append(recent, alert_ref)
    IN  IF Len(appended) > RecentAlertsCap THEN Tail(appended) ELSE appended

\* AlertTriageTools.store_alert(alert) of agent_framework.py (the same text is
\* AlertTriageTools.store_alert of alert_triage_agent.py)
store_alert(recent, alert_ref) ==
    LET appended == Append(recent, alert_ref)
    IN  IF Len(appended) > RecentAlertsCap THEN Tail(appended) ELSE appended

\* entities_list built by the framework's triage_alert for the tool call
RECURSIVE entities_list(_)
entities_list(entities) ==
    IF entities = <<>> THEN <<>>
    ELSE LET props == Head(entities).Properties
         IN  (IF "HostName" \in DOMAIN props
              THEN <<[type |-> "host", value |-> props["HostName"]]>> ELSE <<>>)
             \o (IF "UserName" \in DOMAIN props
                 THEN <<[type |-> "user", value |-> props["UserName"]]>> ELSE <<>>)
             \o (IF "IPAddress" \in DOMAIN props
                 THEN <<[type |-> "ip", value |-> props["IPAddress"]]>> ELSE <<>>)
             \o entities_list(Tail(entities))

\* AlertTriageTools.find_correlated_alerts(alert_entities) of agent_framework.py
find_correlated_alerts(alert_entities, recent) ==
    LET cur == {<<alert_entities[i].type, alert_entities[i].value>> :
                   i \in {j \in 1..Len(alert_entities) :
                            alert_entities[j].type # "" /\ alert_entities[j].value # ""}}
        overlap(past) == cur \cap past_entities(AlertObj[past])
        hit(past) == overlap(past) # {}
        hits == SelectSeq(scanned(recent), hit)
        correlated == [i \in 1..Len(hits) |->
                          [alert_id |-> AlertObj[hits[i]].SystemAlertId,
                           shared_entities |-> overlap(hits[i])]]
    IN  [kind |-> "find",
         alert_entities |-> alert_entities,
         correlated_count |-> Len(correlated),
         correlated_alerts |-> FirstN(correlated, 10),
         has_correlation |-> Len(correlated) > 0]

\* the body of AlertTriageAgent.triage_alert up to the TriageResult it builds
triage_alert(alert_ref, recent) ==
    LET alert == AlertObj[alert_ref]
        risk_score == _calculate_risk_score(alert)
        priority == _determine_priority(risk_score, alert.Severity)
        correlated_alerts == _correlate_alerts(alert, recent)
        decision == _make_triage_decision(risk_score, correlated_alerts)
    IN  [kind |-> "triage",
         alert |-> alert_ref,
         AlertId |-> alert.SystemAlertId,
         RiskScore |-> risk_score,
         Priority |-> priority,
         TriageDecision |-> decision,
         correlated_alerts |-> correlated_alerts,
         CorrelatedAlertIds |->
             [i \in 1..Len(correlated_alerts) |->
                 AlertObj[correlated_alerts[i]].SystemAlertId]]

\* TriageResult.RiskScore: int = Field(ge=0, le=100): the constructor raises otherwise
TriageResultValid(r) == r.RiskScore >= 0 /\ r.RiskScore <= 100

-----------------------------------------------------------------------------
(* Bounds of the model                                                     *)

\* calls made on one instance after Init
MaxSteps == 2

\* how far below 0, CorrelationWindow and RecentAlertsCap the pre-filled
\* window lengths range
PrefillSlack == 1

\* largest entity_count / number of entities of a scored alert
MaxEntities == 6

\* longest list of MITRE techniques of a scored alert
MaxTechniques == 6

\* x repeated n times
Rep(x, n) == [i \in 1..n |-> x]

Idle == [fn |-> "none"]

Pending == [status |-> "pending"]

NoResult == [kind |-> "none"]

\* FoundryAgentLoader.__init__: no agent cached and no factory made
NewLoader == [_agent |-> None, _agent_factory |-> None]

\* no loader call made, no FoundryNativeAgent constructed, the module global
\* _alert_triage_agent at its initial None
ComponentsIdle ==
    /\ loader = NewLoader
    /\ natives = <<>>
    /\ _alert_triage_agent = None

-----------------------------------------------------------------------------
(* The agent and the framework tools: calls on one instance                *)

\* number of copies of the older pre-filled alert
PrefillOld == 0..PrefillSlack

\* number of copies of the newer pre-filled alert
PrefillNew ==
    (0..PrefillSlack)
    \cup ((CorrelationWindow - PrefillSlack)..CorrelationWindow)
    \cup ((RecentAlertsCap - PrefillSlack)..RecentAlertsCap)

\* the alerts the newer part of the pre-filled window repeats
PrefillAlerts == {"a2", "a3"}

ScoringIdle ==
    /\ score_in = Idle
    /\ score_out = Pending
    /\ decide_in = Idle
    /\ decide_out = Pending

\* audit entry of a triage
AuditEntry(alert_ref, res) ==
    [target_entity_id |-> AlertObj[alert_ref].SystemAlertId, result |-> res]

\* The instance after n1 calls for alert f1 followed by n2 calls for alert f2
\* (triage_alert calls on the agent, store_alert calls on the framework tools),
\* none of which evicts; the agent stores only the alerts whose TriageResult
\* it could build.
Init ==
    \E i \in {"agent", "framework"}, f1 \in AlertRefs, f2 \in PrefillAlerts,
       n1 \in PrefillOld, n2 \in PrefillNew :
        LET hist == Rep(f1, n1) \o Rep(f2, n2)
            n == n1 + n2
        IN  /\ n <= RecentAlertsCap
            /\ i = "agent" =>
                  /\ n1 > 0 => TriageResultValid(triage_alert(f1, <<>>))
                  /\ n2 > 0 => TriageResultValid(triage_alert(f2, <<>>))
            /\ impl = i
            /\ stored = hist
            /\ recent_alerts = hist
            /\ steps = 0
            /\ tasks = <<>>
            /\ ComponentsIdle
            /\ ScoringIdle
            /\ IF i = "agent"
               THEN /\ result = IF n = 0 THEN NoResult
                                ELSE triage_alert(hist[n], SubSeq(hist, 1, n - 1))
                    /\ audit_logs = [k \in 1..n |-> AuditEntry(hist[k], "Success")]
                    /\ counters = [alerts_triaged_total |-> n,
                                   alerts_triage_failed_total |-> 0]
               ELSE /\ result = IF n = 0 THEN NoResult ELSE [kind |-> "store"]
                    /\ audit_logs = <<>>
                    /\ counters = [alerts_triaged_total |-> 0,
                                   alerts_triage_failed_total |-> 0]

\* await agent.triage_alert(alert)
TriageAlert(alert_ref) ==
    /\ impl = "agent"
    /\ steps < MaxSteps
    /\ steps' = steps + 1
    /\ LET r == triage_alert(alert_ref, recent_alerts)
       IN  IF TriageResultValid(r)
           THEN /\ result' = r
                /\ audit_logs' = Append(audit_logs, AuditEntry(alert_ref, "Success"))
                /\ counters' = [counters EXCEPT !.alerts_triaged_total = @ + 1]
                /\ recent_alerts' = append_recent(recent_alerts, alert_ref)
                /\ stored' = Append(stored, alert_ref)
           ELSE /\ result' = [kind |-> "raised", alert |-> alert_ref]
                /\ audit_logs' = Append(audit_logs, AuditEntry(alert_ref, "Failure"))
                /\ counters' = [counters EXCEPT !.alerts_triage_failed_total = @ + 1]
                /\ UNCHANGED <<recent_alerts, stored>>
    /\ UNCHANGED <<impl, tasks, loader, natives, _alert_triage_agent, score_in, score_out, decide_in, decide_out>>

\* tools.store_alert(alert)
StoreAlert(alert_ref) ==
    /\ impl = "framework"
    /\ steps < MaxSteps
    /\ steps' = steps + 1
    /\ recent_alerts' = store_alert(recent_alerts, alert_ref)
    /\ stored' = Append(stored, alert_ref)
    /\ result' = [kind |-> "store"]
    /\ UNCHANGED <<impl, tasks, loader, natives, _alert_triage_agent, audit_logs, counters,
                   score_in, score_out, decide_in, decide_out>>

\* the body of the framework's AlertTriageAgent.triage_alert after agent.run:
\* the TriageResult, or None where a json.loads raises
triage_alert_framework(alert_ref, recent) ==
    LET alert == AlertObj[alert_ref]
        list == entities_list(alert.Entities)
        mitre_techniques == DictGet(alert.ExtendedProperties, "MitreTechniques", <<>>)
        confidence == DictGet(alert.ExtendedProperties, "ConfidenceScore", 75)
        risk_data == json_loads(py_str(
            calculate_risk_score(alert.Severity, Len(alert.Entities),
                                 mitre_techniques, confidence)))
        correlation_data == json_loads(py_str(find_correlated_alerts(list, recent)))
    IN  IF risk_data = None \/ correlation_data = None THEN None
        ELSE LET risk_score == risk_data[1].risk_score
                 corr == correlation_data[1]
                 decision_data == json_loads(py_str(
                     make_triage_decision(risk_score, corr.has_correlation)))
             IN  IF decision_data = None THEN None
                 ELSE Some([kind |-> "triage",
                            alert |-> alert_ref,
                            AlertId |-> alert.SystemAlertId,
                            RiskScore |-> risk_score,
                            Priority |-> decision_data[1].priority,
                            TriageDecision |-> decision_data[1].decision,
                            CorrelatedAlertIds |->
                                [i \in 1..Len(corr.correlated_alerts) |->
                                    corr.correlated_alerts[i].alert_id]])

\* await agent.triage_alert(alert) on the framework's AlertTriageAgent; a raise
\* of _get_agent or agent.run takes the same except branch as a raise of
\* json.loads
TriageAlertFramework(alert_ref) ==
    /\ impl = "framework"
    /\ steps < MaxSteps
    /\ steps' = steps + 1
    /\ LET r == triage_alert_framework(alert_ref, recent_alerts)
       IN  IF r # None /\ TriageResultValid(r[1])
           THEN /\ result' = r[1]
                /\ audit_logs' = Append(audit_logs, AuditEntry(alert_ref, "Success"))
                /\ counters' = [counters EXCEPT !.alerts_triaged_total = @ + 1]
                /\ recent_alerts' = store_alert(recent_alerts, alert_ref)
                /\ stored' = Append(stored, alert_ref)
           ELSE /\ result' = [kind |-> "raised", alert |-> alert_ref]
                /\ audit_logs' = Append(audit_logs, AuditEntry(alert_ref, "Failure"))
                /\ counters' = [counters EXCEPT !.alerts_triage_failed_total = @ + 1]
                /\ UNCHANGED <<recent_alerts, stored>>
    /\ UNCHANGED <<impl, tasks, loader, natives, _alert_triage_agent, score_in, score_out, decide_in, decide_out>>

\* the alert_entities arguments the tool is called with: the entities_list of
\* an alert, a list with an empty value, a type no alert has
ToolEntityLists ==
    {entities_list(AlertObj[a].Entities) : a \in {"a1", "a4"}}
    \cup {<<[type |-> "host", value |-> ""], [type |-> "ip", value |-> "10.0.0.5"]>>,
          <<[type |-> "file", value |-> "WS-001"]>>}

\* await tools.find_correlated_alerts(alert_entities)
FindCorrelatedAlerts(alert_entities) ==
    /\ impl = "framework"
    /\ steps < MaxSteps
    /\ steps' = steps + 1
    /\ result' = find_correlated_alerts(alert_entities, recent_alerts)
    /\ UNCHANGED <<impl, tasks, loader, natives, _alert_triage_agent, recent_alerts, stored, audit_logs, counters,
                   score_in, score_out, decide_in, decide_out>>

Next ==
    \/ \E a \in AlertRefs : TriageAlert(a)
    \/ \E a \in AlertRefs : StoreAlert(a)
    \/ \E a \in AlertRefs : TriageAlertFramework(a)
    \/ \E l \in ToolEntityLists : FindCorrelatedAlerts(l)

Spec == Init /\ [][Next]_vars

-----------------------------------------------------------------------------
(* Scoring calls                                                           *)

InstanceIdle ==
    /\ impl = "agent"
    /\ recent_alerts = <<>>
    /\ stored = <<>>
    /\ result = NoResult
    /\ audit_logs = <<>>
    /\ counters = [alerts_triaged_total |-> 0, alerts_triage_failed_total |-> 0]
    /\ steps = 0
    /\ tasks = <<>>
    /\ ComponentsIdle

\* SeverityLevel
SeverityLevel == {"High", "Medium", "Low", "Informational"}

\* the severity strings a tool is called with: the enum's values and another one
SeverityArgs == SeverityLevel \cup {"Unknown"}

TechniqueIds ==
    <<"T1059.001", "T1003.001", "T1566", "T1078", "T1486", "T1021",
      "T1055", "T1105">>

TechniqueLists == {SubSeq(TechniqueIds, 1, n) : n \in 0..MaxTechniques}

EntityCounts == 0..MaxEntities

\* Detection confidence score (0-100)
ConfidenceScores == 0..100

\* confidence_score is an int: values outside the documented range that a
\* caller can pass all the same
OutOfRangeConfidence == {-300, -15, -1, 101, 109, 250}

\* the confidence scores the base variants are called with
ConfidenceArgs == ConfidenceScores \cup OutOfRangeConfidence

\* the confidence scores the scenario-aware variant is called with
ScenarioConfidenceScores == {-15, 0, 55, 100, 250}

\* mitre_scenario_counts: absent, empty, and lists on both sides of the
\* thresholds 1, 3 and 5 and of the bonus cap
ScenarioCountArgs ==
    {None, Some(<<>>), Some(<<0>>), Some(<<1, 2>>), Some(<<3, 4, -1>>),
     Some(<<5, 6, 1>>), Some(<<5, 5, 5, 3>>), Some(<<7, 5, 5, 5, 0>>)}

\* random.randint(5, 20)
AssetScores == 5..20

\* random.randint(2, 10)
UserScores == 2..10

\* ExtendedProperties of a scored alert: with both keys, without
\* ConfidenceScore, without MitreTechniques
ExtendedPropertiesOf(techniques, confidence) ==
    {[MitreTechniques |-> techniques, ConfidenceScore |-> confidence]}
    \cup (IF confidence = 0 THEN {[MitreTechniques |-> techniques]} ELSE {})
    \cup (IF techniques = <<>> THEN {[ConfidenceScore |-> confidence]} ELSE {})

ScoredEntity == [Type |-> "Host", Properties |-> [HostName |-> "WS-001"]]

AgentScoreArgs ==
    {[fn |-> "_calculate_risk_score",
      alert |-> [SystemAlertId |-> 0, Severity |-> sv,
                 Entities |-> Rep(ScoredEntity, n), ExtendedProperties |-> xp]] :
        sv \in SeverityLevel, n \in EntityCounts,
        xp \in UNION {ExtendedPropertiesOf(t, c) :
                         t \in TechniqueLists, c \in ConfidenceArgs}}

FrameworkScoreArgs ==
    [fn : {"calculate_risk_score"}, severity : SeverityArgs,
     entity_count : EntityCounts, mitre_techniques : TechniqueLists,
     confidence_score : ConfidenceArgs]

ScenarioScoreArgs ==
    [fn : {"calculate_risk_score_scenario"}, severity : SeverityArgs,
     entity_count : EntityCounts, mitre_techniques : TechniqueLists,
     confidence_score : ScenarioConfidenceScores,
     mitre_scenario_counts : ScenarioCountArgs]

InitScore ==
    /\ InstanceIdle
    /\ decide_in = Idle
    /\ decide_out = Pending
    /\ score_in \in AgentScoreArgs \cup FrameworkScoreArgs \cup ScenarioScoreArgs
    /\ score_out = Pending

\* await agent._calculate_risk_score(alert)
CalculateRiskScoreAgent ==
    /\ score_in.fn = "_calculate_risk_score"
    /\ score_out = Pending
    /\ score_out' = [status |-> "done",
                     risk_score |-> _calculate_risk_score(score_in.alert)]
    /\ UNCHANGED <<impl, tasks, loader, natives, _alert_triage_agent, recent_alerts, stored, result, audit_logs, counters,
                   steps,
                   score_in, decide_in, decide_out>>

\* await tools.calculate_risk_score(...) of agent_framework.py
CalculateRiskScoreFramework ==
    /\ score_in.fn = "calculate_risk_score"
    /\ score_out = Pending
    /\ LET r == calculate_risk_score(score_in.severity, score_in.entity_count,
                                     score_in.mitre_techniques,
                                     score_in.confidence_score)
       IN  score_out' = [status |-> "done", risk_score |-> r.risk_score,
                         breakdown |-> r.breakdown]
    /\ UNCHANGED <<impl, tasks, loader, natives, _alert_triage_agent, recent_alerts, stored, result, audit_logs, counters,
                   steps,
                   score_in, decide_in, decide_out>>

\* calculate_risk_score(...) of alert_triage_agent.py; the two random.randint
\* calls return any value of their ranges
CalculateRiskScoreScenario ==
    /\ score_in.fn = "calculate_risk_score_scenario"
    /\ score_out = Pending
    /\ \E asset_score \in AssetScores, user_score \in UserScores :
        LET r == calculate_risk_score_scenario(
                     score_in.severity, score_in.entity_count,
                     score_in.mitre_techniques, score_in.confidence_score,
                     score_in.mitre_scenario_counts, asset_score, user_score)
        IN  score_out' = [status |-> "done", risk_score |-> r.risk_score,
                          breakdown |-> r.breakdown]
    /\ UNCHANGED <<impl, tasks, loader, natives, _alert_triage_agent, recent_alerts, stored, result, audit_logs, counters,
                   steps,
                   score_in, decide_in, decide_out>>

NextScore ==
    \/ CalculateRiskScoreAgent
    \/ CalculateRiskScoreFramework
    \/ CalculateRiskScoreScenario

SpecScore == InitScore /\ [][NextScore]_vars

-----------------------------------------------------------------------------
(* Decision and classification calls                                       *)

\* risk_score arguments: 0..100 and a margin on both sides
RiskMargin == 3

RiskScores == (0 - RiskMargin)..(100 + RiskMargin)

\* correlated_alerts arguments of _make_triage_decision
CorrelatedLists == {<<>>, <<"a1">>, <<"a2", "a4">>}

DecideArgs ==
    [fn : {"_determine_priority"}, risk_score : RiskScores, severity : SeverityLevel]
    \cup [fn : {"_make_triage_decision"}, risk_score : RiskScores,
          correlated_alerts : CorrelatedLists]
    \cup [fn : {"make_triage_decision"}, risk_score : RiskScores,
          has_correlation : BOOLEAN]

InitDecide ==
    /\ InstanceIdle
    /\ score_in = Idle
    /\ score_out = Pending
    /\ decide_in \in DecideArgs
    /\ decide_out = Pending

\* agent._determine_priority(risk_score, severity)
DeterminePriority ==
    /\ decide_in.fn = "_determine_priority"
    /\ decide_out = Pending
    /\ decide_out' = [status |-> "done",
                      priority |-> _determine_priority(decide_in.risk_score,
                                                       decide_in.severity)]
    /\ UNCHANGED <<impl, tasks, loader, natives, _alert_triage_agent, recent_alerts, stored, result, audit_logs, counters,
                   steps,
                   score_in, score_out, decide_in>>

\* agent._make_triage_decision(risk_score, correlated_alerts)
MakeTriageDecisionAgent ==
    /\ decide_in.fn = "_make_triage_decision"
    /\ decide_out = Pending
    /\ decide_out' = [status |-> "done",
                      decision |-> _make_triage_decision(decide_in.risk_score,
                                                         decide_in.correlated_alerts)]
    /\ UNCHANGED <<impl, tasks, loader, natives, _alert_triage_agent, recent_alerts, stored, result, audit_logs, counters,
                   steps,
                   score_in, score_out, decide_in>>

\* await tools.make_triage_decision(risk_score, has_correlation)
MakeTriageDecisionFramework ==
    /\ decide_in.fn = "make_triage_decision"
    /\ decide_out = Pending
    /\ LET r == make_triage_decision(decide_in.risk_score, decide_in.has_correlation)
       IN  decide_out' = [status |-> "done", decision |-> r.decision,
                          priority |-> r.priority]
    /\ UNCHANGED <<impl, tasks, loader, natives, _alert_triage_agent, recent_alerts, stored, result, audit_logs, counters,
                   steps,
                   score_in, score_out, decide_in>>

NextDecide ==
    \/ DeterminePriority
    \/ MakeTriageDecisionAgent
    \/ MakeTriageDecisionFramework

SpecDecide == InitDecide /\ [][NextDecide]_vars

-----------------------------------------------------------------------------
(* Properties of the scoring, classification and decision functions        *)

ScoreDone == score_out # Pending

\* the arguments of the scoring call in one shape
ScoredSeverity ==
    IF score_in.fn = "_calculate_risk_score" THEN score_in.alert.Severity
    ELSE score_in.severity

ScoredEntityCount ==
    IF score_in.fn = "_calculate_risk_score" THEN Len(score_in.alert.Entities)
    ELSE score_in.entity_count

ScoredTechniqueCount ==
    IF score_in.fn = "_calculate_risk_score"
    THEN (IF "MitreTechniques" \in DOMAIN score_in.alert.ExtendedProperties
          THEN Len(score_in.alert.ExtendedProperties.MitreTechniques) ELSE 0)
    ELSE Len(score_in.mitre_techniques)

ScoredConfidence ==
    IF score_in.fn = "_calculate_risk_score"
    THEN (IF "ConfidenceScore" \in DOMAIN score_in.alert.ExtendedProperties
          THEN score_in.alert.ExtendedProperties.ConfidenceScore ELSE 0)
    ELSE score_in.confidence_score

\* the inputs the data model allows
ValidScoreArgs ==
    /\ ScoredEntityCount >= 0
    /\ ScoredConfidence \in 0..100

\* the sum the scenario-aware variant clamps
ScenarioRawSum ==
    LET b == score_out.breakdown
    IN  b.severity + b.entities + b.mitre_techniques + b.asset_criticality
        + b.user_risk + b.confidence

\* C1: for every valid input (severity, entity count >= 0, technique list,
\* confidence in 0..100, scenario counts, placeholder values asset 5..20 and
\* user 2..10) the risk score every scoring variant returns is an integer with
\* 0 <= riskScore <= 100.
C1_RiskScoreBounded ==
    (ScoreDone /\ ValidScoreArgs) =>
        /\ score_out.risk_score \in Int
        /\ 0 <= score_out.risk_score
        /\ score_out.risk_score <= 100

\* a scenario-aware call whose components add up to more than 100
C1_Witness ==
    /\ ScoreDone
    /\ ValidScoreArgs
    /\ score_in.fn = "calculate_risk_score_scenario"
    /\ ScenarioRawSum > 100
    /\ score_out.risk_score = 100

\* severity contribution as the scoring table states it
TableSeverity(sv) ==
    CASE sv = "High" -> 30
      [] sv = "Medium" -> 20
      [] sv = "Low" -> 10
      [] sv = "Informational" -> 5
      [] OTHER -> 10

\* the base-variant score as the scoring table states it
TableBaseScore(sv, entities, techniques, confidence) ==
    LET sum == TableSeverity(sv)
               + (IF 2 * entities < 10 THEN 2 * entities ELSE 10)
               + (IF 5 * techniques < 20 THEN 5 * techniques ELSE 20)
               + 15 + 5 + (confidence \div 10)
    IN  IF sum < 100 THEN sum ELSE 100

\* C4: the base-variant risk score (agent.py and agent_framework.py) equals
\* min(100, S + min(2*entityCount, 10) + min(5*|techniques|, 20) + 15 + 5
\* + floor(confidence/10)) with S = 30/20/10/5 for High/Medium/Low/
\* Informational and 10 for any other severity; High, 3 entities, 2 techniques,
\* confidence 85 give 74.
C4_BaseScoreFormula ==
    (ScoreDone /\ ValidScoreArgs
       /\ score_in.fn \in {"_calculate_risk_score", "calculate_risk_score"}) =>
        /\ score_out.risk_score =
               TableBaseScore(ScoredSeverity, ScoredEntityCount,
                              ScoredTechniqueCount, ScoredConfidence)
        /\ (ScoredSeverity = "High" /\ ScoredEntityCount = 3
              /\ ScoredTechniqueCount = 2 /\ ScoredConfidence = 85)
             => score_out.risk_score = 74
        /\ (ScoredSeverity \notin SeverityLevel)
             => score_out.breakdown.severity = 10

\* the scoring example, computed by the framework tool
C4_Witness ==
    /\ ScoreDone
    /\ score_in.fn = "calculate_risk_score"
    /\ score_in.severity = "High"
    /\ score_in.entity_count = 3
    /\ Len(score_in.mitre_techniques) = 2
    /\ score_in.confidence_score = 85
    /\ score_out.risk_score = 74

\* the scenario counts supplied to the call (none when absent)
SuppliedCounts ==
    IF score_in.mitre_scenario_counts = None THEN <<>>
    ELSE score_in.mitre_scenario_counts[1]

\* the bonus before its cap: 3 per count >= 5, 2 per count in 3..4, 1 per count
\* in 1..2
TableBonusSum(counts) ==
    3 * Cardinality({i \in 1..Len(counts) : counts[i] >= 5})
    + 2 * Cardinality({i \in 1..Len(counts) : counts[i] >= 3 /\ counts[i] < 5})
    + Cardinality({i \in 1..Len(counts) : counts[i] >= 1 /\ counts[i] < 3})

\* C5: in the scenario-aware variant the MITRE contribution equals
\* min(3*|techniques|, 15) + min(10, sum of the per-count points), so it lies in
\* 0..25 with the bonus in 0..10; with absent or empty scenario counts the bonus
\* is 0 and the contribution is exactly min(3*|techniques|, 15).
C5_ScenarioMitreContribution ==
    (ScoreDone /\ score_in.fn = "calculate_risk_score_scenario") =>
        LET b == score_out.breakdown
            n == Len(score_in.mitre_techniques)
            base == IF 3 * n < 15 THEN 3 * n ELSE 15
            sum == TableBonusSum(SuppliedCounts)
            bonus == IF sum < 10 THEN sum ELSE 10
        IN  /\ b.mitre_techniques = base + bonus
            /\ b.mitre_scenario_bonus = bonus
            /\ b.mitre_techniques \in 0..25
            /\ b.mitre_scenario_bonus \in 0..10
            /\ (SuppliedCounts = <<>>) =>
                  (b.mitre_scenario_bonus = 0 /\ b.mitre_techniques = base)

\* a call whose per-count points exceed the cap of the bonus and whose
\* techniques exceed the cap of the base
C5_Witness ==
    /\ ScoreDone
    /\ score_in.fn = "calculate_risk_score_scenario"
    /\ TableBonusSum(SuppliedCounts) > 10
    /\ Len(score_in.mitre_techniques) > 5
    /\ score_out.breakdown.mitre_techniques = 25

DecideDone == decide_out # Pending

\* hasCorrelation of a decision call
DecidedCorrelation ==
    IF decide_in.fn = "make_triage_decision" THEN decide_in.has_correlation
    ELSE decide_in.correlated_alerts # <<>>

\* the decision table, by disjoint cases
TableDecision(risk, has_corr) ==
    CASE risk >= 80 -> <<"EscalateToIncident", "Critical">>
      [] risk >= 70 /\ risk < 80 -> <<"EscalateToIncident", "High">>
      [] risk >= 40 /\ risk < 70 /\ has_corr -> <<"CorrelateWithExisting", "Medium">>
      [] risk >= 40 /\ risk < 70 /\ ~has_corr -> <<"RequireHumanReview", "Medium">>
      [] risk >= 30 /\ risk < 40 -> <<"RequireHumanReview", "Medium">>
      [] risk < 30 -> <<"MarkAsFalsePositive", "Low">>

\* C2: the decision step is a total first-match-wins table over (riskScore,
\* hasCorrelation): >= 70 EscalateToIncident (Critical if >= 80 else High);
\* else >= 40 and correlated CorrelateWithExisting/Medium; else < 30
\* MarkAsFalsePositive/Low; else RequireHumanReview/Medium.  The framework tool
\* returns decision and priority, the agent's step the decision.
C2_DecisionTable ==
    (DecideDone /\ decide_in.fn \in {"make_triage_decision", "_make_triage_decision"}) =>
        LET t == TableDecision(decide_in.risk_score, DecidedCorrelation)
            r == decide_in.risk_score
            c == DecidedCorrelation
        IN  /\ decide_out.decision = t[1]
            /\ decide_in.fn = "make_triage_decision" => decide_out.priority = t[2]
            /\ (r = 85 /\ ~c) => decide_out.decision = "EscalateToIncident"
            /\ (r = 72 /\ ~c) => decide_out.decision = "EscalateToIncident"
            /\ (r = 50 /\ c) => decide_out.decision = "CorrelateWithExisting"
            /\ (r = 20 /\ ~c) => decide_out.decision = "MarkAsFalsePositive"
            /\ (r = 35 /\ ~c) => decide_out.decision = "RequireHumanReview"
            /\ decide_in.fn = "make_triage_decision" =>
                  /\ (r = 85 /\ ~c) => decide_out.priority = "Critical"
                  /\ (r = 72 /\ ~c) => decide_out.priority = "High"
                  /\ (r = 50 /\ c) => decide_out.priority = "Medium"
                  /\ (r = 20 /\ ~c) => decide_out.priority = "Low"
                  /\ (r = 35 /\ ~c) => decide_out.priority = "Medium"

\* the framework tool deciding (35, false)
C2_Witness ==
    /\ DecideDone
    /\ decide_in.fn = "make_triage_decision"
    /\ decide_in.risk_score = 35
    /\ ~decide_in.has_correlation
    /\ decide_out.decision = "RequireHumanReview"
    /\ decide_out.priority = "Medium"

\* the priority thresholds, by disjoint cases
TablePriority(risk) ==
    CASE risk >= 80 -> "Critical"
      [] risk >= 60 /\ risk <= 79 -> "High"
      [] risk >= 40 /\ risk <= 59 -> "Medium"
      [] risk < 40 -> "Low"

-----------------------------------------------------------------------------
(* Properties of the correlation lookup and of the recent-alerts window    *)

Range(f) == {f[i] : i \in DOMAIN f}

\* the normalized entity set of an alert: a (type, value) pair for each
\* HostName, UserName and IPAddress property of each entity
NormalizedEntities(alert) ==
    LET typeOf == [HostName |-> "host", UserName |-> "user", IPAddress |-> "ip"]
    IN  UNION {{<<typeOf[k], alert.Entities[i].Properties[k]>> :
                   k \in DOMAIN alert.Entities[i].Properties \cap DOMAIN typeOf} :
               i \in 1..Len(alert.Entities)}

SharePair(a, b) == NormalizedEntities(a) \cap NormalizedEntities(b) # {}

\* the positions of the last 100 entries of a list
Last100(w) == {i \in 1..Len(w) : i > Len(w) - 100}

\* the positions of w a lookup for alert has to report
ToReport(alert, w) ==
    {i \in Last100(w) :
        /\ AlertObj[w[i]].SystemAlertId # alert.SystemAlertId
        /\ SharePair(AlertObj[w[i]], alert)}

\* a step in which the agent completes a triage
TriageStep == impl = "agent" /\ steps' = steps + 1 /\ result'.kind = "triage"

\* the triage result of a call made after Init
Triaged == impl = "agent" /\ steps >= 1 /\ result.kind = "triage"

\* the alerts stored before the alert of the last triage result
StoredBefore == SubSeq(stored, 1, Len(stored) - 1)

\* C6: the correlation lookup of a triage returns exactly the alerts p among
\* the last 100 entries of the window whose id differs from the alert's and
\* whose normalized entity set (host/HostName, user/UserName, ip/IPAddress
\* pairs) intersects the alert's; an alert with no such property is correlated
\* with no alert.
C6_CorrelationLookup ==
    [][TriageStep =>
         LET alert == AlertObj[result'.alert]
             found == result'.correlated_alerts
             want == ToReport(alert, recent_alerts)
         IN  /\ Len(found) = Cardinality(want)
             /\ Range(found) = {recent_alerts[i] : i \in want}
             /\ \A r \in AlertRefs :
                    Cardinality({j \in 1..Len(found) : found[j] = r})
                      = Cardinality({i \in want : recent_alerts[i] = r})
             /\ (NormalizedEntities(alert) = {}) => found = <<>>]_vars

\* a triage over a window of more than 100 entries that reports some alerts
\* and not others
C6_Witness ==
    /\ Triaged
    /\ Len(StoredBefore) > CorrelationWindow
    /\ result.correlated_alerts # <<>>
    /\ Len(result.correlated_alerts) < CorrelationWindow

\* C7: only the last 100 entries of the window are scanned: an alert is
\* reported as correlated only while it is among the 100 most recently stored
\* alerts; once 100 or more alerts have been stored after it, it is not
\* reported, even though the window still holds it.
C7_OnlyLast100Scanned ==
    /\ (impl = "agent" /\ result.kind = "triage") =>
           \A k \in 1..Len(result.correlated_alerts) :
               \E i \in Last100(StoredBefore) :
                   stored[i] = result.correlated_alerts[k]
    /\ (impl = "framework" /\ result.kind = "find") =>
           \A k \in 1..Len(result.correlated_alerts) :
               \E i \in Last100(stored) :
                   AlertObj[stored[i]].SystemAlertId
                     = result.correlated_alerts[k].alert_id

\* alert A is still in the window, 100 or more alerts were stored after it,
\* the triaged alert shares an entity with A, and A is not reported
C7_Witness ==
    /\ Triaged
    /\ \E i \in 1..Len(StoredBefore) :
          /\ i <= Len(StoredBefore) - 100
          /\ i > Len(StoredBefore) - RecentAlertsCap
          /\ AlertObj[stored[i]].SystemAlertId # result.AlertId
          /\ SharePair(AlertObj[stored[i]], AlertObj[result.alert])
          /\ \A j \in Last100(StoredBefore) : stored[j] # stored[i]
          /\ stored[i] \notin Range(result.correlated_alerts)

C9_WindowIsLast1000Stored ==
    LET n == Len(stored)
        m == IF n < 1000 THEN n ELSE 1000
    IN  /\ Len(recent_alerts) <= 1000
        /\ Len(recent_alerts) = m
        /\ \A i \in 1..Len(recent_alerts) : recent_alerts[i] = stored[n - m + i]

\* the 1001st alert has been appended and the oldest one, different from the
\* second oldest, is gone
C9_Witness ==
    /\ steps >= 1
    /\ Len(stored) = RecentAlertsCap + 1
    /\ stored[1] # stored[2]
    /\ stored[RecentAlertsCap + 1] # stored[RecentAlertsCap]
    /\ Len(recent_alerts) = RecentAlertsCap

\* C10: correlation membership is symmetric: when the triaged alert A and an
\* alert B among the last 100 entries of the window have different ids and
\* share a (type, value) pair, the lookup for A reports B, and a lookup for B
\* over the window A has then been stored in reports A.
C10_SymmetricMembership ==
    [][TriageStep =>
         \A i \in Last100(recent_alerts) :
             LET a == result'.alert
                 b == recent_alerts[i]
             IN  (AlertObj[a].SystemAlertId # AlertObj[b].SystemAlertId
                    /\ SharePair(AlertObj[a], AlertObj[b])) =>
                     /\ b \in Range(result'.correlated_alerts)
                     /\ a \in Range(_correlate_alerts(AlertObj[b], recent_alerts'))]_vars

\* both alerts were triaged after Init, one after the other, and the second
\* lookup reports the first alert
C10_Witness ==
    /\ Triaged
    /\ steps = 2
    /\ stored[Len(stored) - 1] \in Range(result.correlated_alerts)
    /\ SharePair(AlertObj[stored[Len(stored) - 1]], AlertObj[result.alert])

\* C11: the correlated alert ids of a triage result form a set: after any
\* sequence of triage operations on one agent (also when a prior alert was
\* triaged, and so stored, more than once, or shares several entities with the
\* current alert) each alert id occurs at most once in CorrelatedAlertIds.
C11_CorrelatedIdsFormASet ==
    (impl = "agent" /\ result.kind = "triage") =>
        \A i, j \in 1..Len(result.CorrelatedAlertIds) :
            result.CorrelatedAlertIds[i] = result.CorrelatedAlertIds[j] => i = j

-----------------------------------------------------------------------------
(* Relations between scoring calls                                         *)

\* the position of a severity on Informational -> Low -> Medium -> High
SeverityRank == [Informational |-> 1, Low |-> 2, Medium |-> 3, High |-> 4]

\* the risk score of the call with the severity replaced by sv and every other
\* input, and the two placeholder values the call drew, as they were
RescoredWith(sv) ==
    IF score_in.fn = "_calculate_risk_score"
    THEN _calculate_risk_score([score_in.alert EXCEPT !.Severity = sv])
    ELSE IF score_in.fn = "calculate_risk_score"
    THEN calculate_risk_score(sv, score_in.entity_count, score_in.mitre_techniques,
                              score_in.confidence_score).risk_score
    ELSE calculate_risk_score_scenario(
             sv, score_in.entity_count, score_in.mitre_techniques,
             score_in.confidence_score, score_in.mitre_scenario_counts,
             score_out.breakdown.asset_criticality,
             score_out.breakdown.user_risk).risk_score

\* C12: severity monotonicity: with entity count, techniques, scenario counts,
\* confidence and the asset/user placeholder values held fixed, raising
\* severity along Informational -> Low -> Medium -> High never decreases the
\* risk score.
C12_SeverityMonotone ==
    (ScoreDone /\ ScoredSeverity \in SeverityLevel) =>
        \A sv \in SeverityLevel :
            SeverityRank[sv] >= SeverityRank[ScoredSeverity] =>
                score_out.risk_score <= RescoredWith(sv)

\* a Low call of the scenario-aware variant that Medium raises by 10 and High
\* by less than 20, the clamp cutting the rest
C12_Witness ==
    /\ ScoreDone
    /\ score_in.fn = "calculate_risk_score_scenario"
    /\ score_in.severity = "Low"
    /\ RescoredWith("Medium") = score_out.risk_score + 10
    /\ RescoredWith("High") = 100
    /\ RescoredWith("High") < score_out.risk_score + 20

-----------------------------------------------------------------------------
(* The same scoring call made twice                                        *)

\* what one scoring call with the arguments args may return: one value for
\* the two base variants, one for each pair of values the two random.randint
\* calls may return for the scenario-aware variant
score_returns(args) ==
    IF args.fn = "_calculate_risk_score"
    THEN {[status |-> "done", risk_score |-> _calculate_risk_score(args.alert)]}
    ELSE IF args.fn = "calculate_risk_score"
    THEN {LET r == calculate_risk_score(args.severity, args.entity_count,
                                        args.mitre_techniques, args.confidence_score)
          IN  [status |-> "done", risk_score |-> r.risk_score,
               breakdown |-> r.breakdown]}
    ELSE {LET r == calculate_risk_score_scenario(
                       args.severity, args.entity_count, args.mitre_techniques,
                       args.confidence_score, args.mitre_scenario_counts,
                       asset_score, user_score)
          IN  [status |-> "done", risk_score |-> r.risk_score,
               breakdown |-> r.breakdown] :
            asset_score \in AssetScores, user_score \in UserScores}

\* the arguments of the calls made twice
RepeatScoreArgs ==
    {[fn |-> "_calculate_risk_score",
      alert |-> [SystemAlertId |-> 0, Severity |-> sv,
                 Entities |-> Rep(ScoredEntity, n),
                 ExtendedProperties |->
                     [MitreTechniques |-> SubSeq(TechniqueIds, 1, t),
                      ConfidenceScore |-> c]]] :
        sv \in SeverityLevel, n \in {0, 3}, t \in {0, 2}, c \in {0, 85}}
    \cup [fn : {"calculate_risk_score"}, severity : SeverityArgs,
          entity_count : {0, 3},
          mitre_techniques : {<<>>, SubSeq(TechniqueIds, 1, 2)},
          confidence_score : {0, 85}]
    \cup [fn : {"calculate_risk_score_scenario"}, severity : {"High", "Low"},
          entity_count : {3}, mitre_techniques : {SubSeq(TechniqueIds, 1, 2)},
          confidence_score : {55},
          mitre_scenario_counts : {None, Some(<<5, 6, 1>>)}]

InitRepeat ==
    /\ InstanceIdle
    /\ decide_in = Idle
    /\ decide_out = Pending
    /\ score_in \in RepeatScoreArgs
    /\ score_out = Pending

\* the caller keeps what the first call returned (in result) and makes the
\* same call, with the same arguments, once more
CalculateRiskScoreAgain ==
    /\ score_out # Pending
    /\ result = NoResult
    /\ \E r \in score_returns(score_in) :
          /\ result' = [kind |-> "score", returned |-> score_out]
          /\ score_out' = r
    /\ UNCHANGED <<impl, tasks, loader, natives, _alert_triage_agent, recent_alerts, stored, audit_logs, counters, steps,
                   score_in, decide_in, decide_out>>

NextRepeat ==
    \/ CalculateRiskScoreAgent
    \/ CalculateRiskScoreFramework
    \/ CalculateRiskScoreScenario
    \/ CalculateRiskScoreAgain

SpecRepeat == InitRepeat /\ [][NextRepeat]_vars

\* C13: scoring is deterministic: two calls of the scoring function with
\* identical inputs (severity, entity count, techniques, confidence, scenario
\* counts) return the identical risk score and the identical breakdown.
C13_ScoringDeterministic ==
    (result.kind = "score") => score_out = result.returned

-----------------------------------------------------------------------------
(* The breakdown returned with a risk score                                *)

\* C14: in every result of calculate_risk_score, risk_score equals
\* min(100, severity + entities + mitre_techniques + asset_criticality
\* + user_risk + confidence) of the breakdown returned with it, and in the
\* scenario-aware variant breakdown.mitre_techniques equals
\* mitre_base + mitre_scenario_bonus.
C14_BreakdownSumsToScore ==
    (ScoreDone /\ score_in.fn \in {"calculate_risk_score",
                                   "calculate_risk_score_scenario"}) =>
        LET b == score_out.breakdown
            sum == b.severity + b.entities + b.mitre_techniques
                   + b.asset_criticality + b.user_risk + b.confidence
        IN  /\ score_out.risk_score = (IF sum < 100 THEN sum ELSE 100)
            /\ score_in.fn = "calculate_risk_score_scenario" =>
                   b.mitre_techniques = b.mitre_base + b.mitre_scenario_bonus

\* a scenario-aware result below the clamp whose MITRE component has both a
\* base and a bonus part
C14_Witness ==
    /\ ScoreDone
    /\ score_in.fn = "calculate_risk_score_scenario"
    /\ score_out.breakdown.mitre_base > 0
    /\ score_out.breakdown.mitre_scenario_bonus > 0
    /\ score_out.risk_score < 100
    /\ score_out.risk_score = ScenarioRawSum

-----------------------------------------------------------------------------
(* Outcomes of the rule-based triage                                       *)

\* C15: the rule-based triage is total: triage_alert returns a TriageResult
\* (it never raises) for every structurally valid alert, also for alerts with
\* no entities, no techniques, a missing confidence score, or a
\* ConfidenceScore outside 0..100, so every alert receives a triage outcome.
C15_TriageTotal ==
    (impl = "agent" /\ steps >= 1) => result.kind = "triage"

-----------------------------------------------------------------------------
(* The confidence contribution                                             *)

\* min(100, max(0, c))
ClampedConfidence(c) == IF c < 0 THEN 0 ELSE IF c > 100 THEN 100 ELSE c

\* C16: the confidence contribution to the risk score is
\* floor(min(100, max(0, confidenceScore)) / 10): never negative and never
\* greater than 10 for any integer confidenceScore, also below 0 and above 100.
\* The tools report the contribution in the breakdown; the agent's enters its
\* risk score.
C16_ConfidenceContributionClamped ==
    ScoreDone =>
        IF score_in.fn = "_calculate_risk_score"
        THEN score_out.risk_score =
                 TableBaseScore(ScoredSeverity, ScoredEntityCount,
                                ScoredTechniqueCount,
                                ClampedConfidence(ScoredConfidence))
        ELSE /\ score_out.breakdown.confidence
                  = ClampedConfidence(ScoredConfidence) \div 10
             /\ score_out.breakdown.confidence >= 0
             /\ score_out.breakdown.confidence <= 10

-----------------------------------------------------------------------------
(* triage_alert calls of one agent interleaved at their await points       *)

\* triage_alert coroutines started on the agent
MaxTasks == 2

\* the alerts the interleaved calls are for: a1 and a2 share a host, a5 is the
\* alert no TriageResult can be built for
ConcAlerts == {"a1", "a2", "a5"}

\* the alert the window holds before the calls start
ConcPrefillAlert == "a3"

\* lengths of the window before the calls start
ConcPrefill == {0} \cup ((RecentAlertsCap - PrefillSlack)..RecentAlertsCap)

\* The agent after n sequential triage_alert calls for ConcPrefillAlert
InitConc ==
    \E n \in ConcPrefill :
        LET hist == Rep(ConcPrefillAlert, n)
        IN  /\ impl = "agent"
            /\ stored = hist
            /\ recent_alerts = hist
            /\ steps = 0
            /\ tasks = <<>>
            /\ ComponentsIdle
            /\ ScoringIdle
            /\ result = IF n = 0 THEN NoResult
                        ELSE triage_alert(hist[n], SubSeq(hist, 1, n - 1))
            /\ audit_logs = [k \in 1..n |-> AuditEntry(hist[k], "Success")]
            /\ counters = [alerts_triaged_total |-> n,
                           alerts_triage_failed_total |-> 0]

ConcFrame ==
    UNCHANGED <<impl, loader, natives, _alert_triage_agent,
                score_in, score_out, decide_in, decide_out>>

\* asyncio.create_task(agent.triage_alert(alert)): the coroutine is scheduled
StartTriage(alert_ref) ==
    /\ Len(tasks) < MaxTasks
    /\ tasks' = Append(tasks, [alert |-> alert_ref, pc |-> "start"])
    /\ UNCHANGED <<recent_alerts, stored, result, audit_logs, counters, steps>>
    /\ ConcFrame

\* up to the return of "await self._calculate_risk_score(alert)"
AwaitCalculateRiskScore(t) ==
    /\ tasks[t].pc = "start"
    /\ tasks' = [tasks EXCEPT ![t] =
          [alert |-> @.alert, pc |-> "scored",
           risk_score |-> _calculate_risk_score(AlertObj[@.alert])]]
    /\ UNCHANGED <<recent_alerts, stored, result, audit_logs, counters, steps>>
    /\ ConcFrame

\* _determine_priority, then up to the return of
\* "await self._correlate_alerts(alert)", which reads self._recent_alerts
AwaitCorrelateAlerts(t) ==
    /\ tasks[t].pc = "scored"
    /\ tasks' = [tasks EXCEPT ![t] =
          [alert |-> @.alert, pc |-> "correlated", risk_score |-> @.risk_score,
           priority |-> _determine_priority(@.risk_score,
                                            AlertObj[@.alert].Severity),
           correlated_alerts |-> _correlate_alerts(AlertObj[@.alert],
                                                   recent_alerts)]]
    /\ UNCHANGED <<recent_alerts, stored, result, audit_logs, counters, steps>>
    /\ ConcFrame

\* _make_triage_decision, then up to the return of
\* "await self._generate_explanation(...)"
AwaitGenerateExplanation(t) ==
    /\ tasks[t].pc = "correlated"
    /\ tasks' = [tasks EXCEPT ![t] =
          [alert |-> @.alert, pc |-> "explained", risk_score |-> @.risk_score,
           priority |-> @.priority, correlated_alerts |-> @.correlated_alerts,
           decision |-> _make_triage_decision(@.risk_score,
                                              @.correlated_alerts)]]
    /\ UNCHANGED <<recent_alerts, stored, result, audit_logs, counters, steps>>
    /\ ConcFrame

\* up to the return of "await self._enrich_with_threat_intel(alert)"
AwaitEnrichWithThreatIntel(t) ==
    /\ tasks[t].pc = "explained"
    /\ tasks' = [tasks EXCEPT ![t].pc = "enriched"]
    /\ UNCHANGED <<recent_alerts, stored, result, audit_logs, counters, steps>>
    /\ ConcFrame

\* the TriageResult the coroutine t builds from its local variables
task_triage_result(task) ==
    [kind |-> "triage",
     alert |-> task.alert,
     AlertId |-> AlertObj[task.alert].SystemAlertId,
     RiskScore |-> task.risk_score,
     Priority |-> task.priority,
     TriageDecision |-> task.decision,
     correlated_alerts |-> task.correlated_alerts,
     CorrelatedAlertIds |->
         [i \in 1..Len(task.correlated_alerts) |->
             AlertObj[task.correlated_alerts[i]].SystemAlertId]]

\* TriageResult(...), then "await self.audit_service.log_agent_action(...)":
\* of the try block when the constructor returns, of the except block when
\* it raises
AwaitLogAgentAction(t) ==
    /\ tasks[t].pc = "enriched"
    /\ IF TriageResultValid(task_triage_result(tasks[t]))
       THEN /\ audit_logs' = Append(audit_logs, AuditEntry(tasks[t].alert, "Success"))
            /\ tasks' = [tasks EXCEPT ![t].pc = "audited"]
       ELSE /\ audit_logs' = Append(audit_logs, AuditEntry(tasks[t].alert, "Failure"))
            /\ tasks' = [tasks EXCEPT ![t].pc = "failed"]
    /\ UNCHANGED <<recent_alerts, stored, result, counters, steps>>
    /\ ConcFrame

\* counter("alerts_triaged_total").inc(), the append and the pop(0), and
\* "return triage_result": no await in between
StoreAndReturn(t) ==
    /\ tasks[t].pc = "audited"
    /\ counters' = [counters EXCEPT !.alerts_triaged_total = @ + 1]
    /\ recent_alerts' = append_recent(recent_alerts, tasks[t].alert)
    /\ stored' = Append(stored, tasks[t].alert)
    /\ result' = task_triage_result(tasks[t])
    /\ steps' = steps + 1
    /\ tasks' = [tasks EXCEPT ![t].pc = "returned"]
    /\ UNCHANGED audit_logs
    /\ ConcFrame

\* the except branch storing the alert before it re-raises
CountStoreAndRaise(t) ==
    /\ tasks[t].pc = "failed"
    /\ counters' = [counters EXCEPT !.alerts_triage_failed_total = @ + 1]
    /\ recent_alerts' = append_recent(recent_alerts, tasks[t].alert)
    /\ stored' = Append(stored, tasks[t].alert)
    /\ result' = [kind |-> "raised", alert |-> tasks[t].alert]
    /\ steps' = steps + 1
    /\ tasks' = [tasks EXCEPT ![t].pc = "raised"]
    /\ UNCHANGED audit_logs
    /\ ConcFrame

\* counter("alerts_triage_failed_total").inc() and "raise"
CountAndRaise(t) ==
    /\ tasks[t].pc = "failed"
    /\ counters' = [counters EXCEPT !.alerts_triage_failed_total = @ + 1]
    /\ result' = [kind |-> "raised", alert |-> tasks[t].alert]
    /\ steps' = steps + 1
    /\ tasks' = [tasks EXCEPT ![t].pc = "raised"]
    /\ UNCHANGED <<recent_alerts, stored, audit_logs>>
    /\ ConcFrame

NextConc ==
    \/ \E a \in ConcAlerts : StartTriage(a)
    \/ \E t \in DOMAIN tasks : AwaitCalculateRiskScore(t)
    \/ \E t \in DOMAIN tasks : AwaitCorrelateAlerts(t)
    \/ \E t \in DOMAIN tasks : AwaitGenerateExplanation(t)
    \/ \E t \in DOMAIN tasks : AwaitEnrichWithThreatIntel(t)
    \/ \E t \in DOMAIN tasks : AwaitLogAgentAction(t)
    \/ \E t \in DOMAIN tasks : StoreAndReturn(t)
    \/ \E t \in DOMAIN tasks : CountAndRaise(t)

SpecConc == InitConc /\ [][NextConc]_vars

\* how often x occurs in the list s
Occurrences(s, x) == Cardinality({i \in 1..Len(s) : s[i] = x})

\* C17: when several triage_alert calls on the same agent are interleaved at
\* their await points, the recent-alerts window never holds more than 1000
\* entries in any reachable state, and every alert whose triage completes
\* successfully is appended to it exactly once (no append is lost or applied
\* twice): as many entries for an alert as calls for it have returned, the
\* window being the last min(n, 1000) appended alerts.
C17_InterleavedAppends ==
    /\ Len(recent_alerts) <= 1000
    /\ \A a \in ConcAlerts :
          Occurrences(recent_alerts, a)
            = Cardinality({t \in DOMAIN tasks :
                              tasks[t].alert = a /\ tasks[t].pc = "returned"})
    /\ LET n == Len(stored)
           m == IF n < 1000 THEN n ELSE 1000
       IN  /\ Len(recent_alerts) = m
           /\ \A i \in 1..m : recent_alerts[i] = stored[n - m + i]

\* two calls have returned and evicted from a full window; the one stored
\* second looked the window up before the first was stored, so its result
\* misses the first alert although they share a host
C17_Witness ==
    /\ Len(stored) > RecentAlertsCap
    /\ Len(recent_alerts) = RecentAlertsCap
    /\ \E t, u \in DOMAIN tasks :
          /\ tasks[t].pc = "returned" /\ tasks[u].pc = "returned"
          /\ tasks[t].alert = "a1" /\ tasks[u].alert = "a2"
          /\ recent_alerts[RecentAlertsCap - 1] = "a1"
          /\ recent_alerts[RecentAlertsCap] = "a2"
          /\ tasks[u].correlated_alerts = <<>>

-----------------------------------------------------------------------------
(* AlertTriageAgentV2: the response parser                                 *)
(* A text is the list of its characters.                                   *)

Max(a, b) == IF a >= b THEN a ELSE b

\* str.lower() on the letters A to Z
LowerOf ==
    [A |-> "a", B |-> "b", C |-> "c", D |-> "d", E |-> "e", F |-> "f", G |-> "g",
     H |-> "h", I |-> "i", J |-> "j", K |-> "k", L |-> "l", M |-> "m", N |-> "n",
     O |-> "o", P |-> "p", Q |-> "q", R |-> "r", S |-> "s", T |-> "t", U |-> "u",
     V |-> "v", W |-> "w", X |-> "x", Y |-> "y", Z |-> "z"]

\* response.lower()
py_lower(text) ==
    [i \in 1..Len(text) |->
        IF text[i] \in DOMAIN LowerOf THEN LowerOf[text[i]] ELSE text[i]]

\* "needle in text"
py_in(needle, text) ==
    \E i \in 1..(Len(text) - Len(needle) + 1) :
        SubSeq(text, i, i + Len(needle) - 1) = needle

\* \d
Digits == {"0", "1", "2", "3", "4", "5", "6", "7", "8", "9"}

\* \s
Whitespace == {" ", "\t", "\n", "\r"}

DigitValue(c) ==
    CHOOSE n \in 0..9 : <<"0", "1", "2", "3", "4", "5", "6", "7", "8", "9">>[n + 1] = c

\* int(digits)
RECURSIVE py_int(_)
py_int(digits) ==
    IF digits = <<>> THEN 0
    ELSE 10 * py_int(SubSeq(digits, 1, Len(digits) - 1))
         + DigitValue(digits[Len(digits)])

\* a greedy class*: the first position from i on whose character is not in
\* class (Len(text) + 1 when there is none)
RECURSIVE span_end(_, _, _)
span_end(text, i, class) ==
    IF i <= Len(text) /\ text[i] \in class THEN span_end(text, i + 1, class)
    ELSE i

\* the literal lit stands at position i of text
has_at(text, i, lit) ==
    /\ i + Len(lit) - 1 <= Len(text)
    /\ SubSeq(text, i, i + Len(lit) - 1) = lit

kw_escalate == <<"e", "s", "c", "a", "l", "a", "t", "e">>

kw_incident == <<"i", "n", "c", "i", "d", "e", "n", "t">>

kw_correlate == <<"c", "o", "r", "r", "e", "l", "a", "t", "e">>

kw_false_positive == <<"f", "a", "l", "s", "e", " ", "p", "o", "s", "i", "t", "i", "v", "e">>

kw_critical == <<"c", "r", "i", "t", "i", "c", "a", "l">>

kw_high == <<"h", "i", "g", "h">>

kw_priority == <<"p", "r", "i", "o", "r", "i", "t", "y">>

kw_low == <<"l", "o", "w">>

kw_risk == <<"r", "i", "s", "k">>

kw_score == <<"s", "c", "o", "r", "e">>

kw_slash == <<"/">>

kw_100 == <<"1", "0", "0">>

\* re.search(r'risk\s*score[:\s]*(\d+)', text): group(1) of the leftmost
\* match, None when there is none.  The classes of neighbouring parts are
\* disjoint, so each greedy part has one way to match.
search_risk_score(text) ==
    LET group_at(i) ==
            IF ~has_at(text, i, kw_risk) THEN 0
            ELSE LET j == span_end(text, i + Len(kw_risk), Whitespace)
                 IN  IF ~has_at(text, j, kw_score) THEN 0
                     ELSE LET k == span_end(text, j + Len(kw_score),
                                            Whitespace \cup {":"})
                          IN  IF k <= Len(text) /\ text[k] \in Digits THEN k ELSE 0
        starts == {i \in 1..Len(text) : group_at(i) > 0}
    IN  IF starts = {} THEN None
        ELSE LET i == CHOOSE x \in starts : \A y \in starts : x <= y
                 k == group_at(i)
             IN  Some(SubSeq(text, k, span_end(text, k, Digits) - 1))

\* re.search(r'(\d+)\s*/\s*100', text): group(1) of the leftmost match, None
\* when there is none.  A shorter group 1 is followed by a digit, so only the
\* whole run of digits can match.
search_over_100(text) ==
    LET matches_at(i) ==
            /\ text[i] \in Digits
            /\ LET e == span_end(text, i, Digits)
                   s == span_end(text, e, Whitespace)
               IN  /\ has_at(text, s, kw_slash)
                   /\ has_at(text, span_end(text, s + 1, Whitespace), kw_100)
        starts == {i \in 1..Len(text) : matches_at(i)}
    IN  IF starts = {} THEN None
        ELSE LET i == CHOOSE x \in starts : \A y \in starts : x <= y
             IN  Some(SubSeq(text, i, span_end(text, i, Digits) - 1))

\* parse_decision testing 'correlate' before 'escalate' and 'incident'
parse_decision_correlate_first(response_lower) ==
    IF py_in(kw_correlate, response_lower)
    THEN [decision |-> "CorrelateWithExisting", priority |-> "Medium"]
    ELSE IF py_in(kw_escalate, response_lower) /\ py_in(kw_incident, response_lower)
    THEN [decision |-> "EscalateToIncident", priority |-> "High"]
    ELSE IF py_in(kw_false_positive, response_lower)
    THEN [decision |-> "MarkAsFalsePositive", priority |-> "Low"]
    ELSE [decision |-> "RequireHumanReview", priority |-> "Medium"]

\* "Determine decision from response text" of _parse_response
parse_decision(response_lower) ==
    IF py_in(kw_escalate, response_lower) /\ py_in(kw_incident, response_lower)
    THEN [decision |-> "EscalateToIncident", priority |-> "High"]
    ELSE IF py_in(kw_correlate, response_lower)
    THEN [decision |-> "CorrelateWithExisting", priority |-> "Medium"]
    ELSE IF py_in(kw_false_positive, response_lower)
    THEN [decision |-> "MarkAsFalsePositive", priority |-> "Low"]
    ELSE [decision |-> "RequireHumanReview", priority |-> "Medium"]

\* parse_priority taking 'high' alone as an explicit High
parse_priority_high_alone(response_lower, priority) ==
    IF py_in(kw_critical, response_lower) THEN "Critical"
    ELSE IF py_in(kw_high, response_lower) THEN "High"
    ELSE IF py_in(kw_low, response_lower) /\ py_in(kw_priority, response_lower)
    THEN "Low"
    ELSE priority

\* "Extract priority if explicitly mentioned" of _parse_response
parse_priority(response_lower, priority) ==
    IF py_in(kw_critical, response_lower) THEN "Critical"
    ELSE IF py_in(kw_high, response_lower) /\ py_in(kw_priority, response_lower)
    THEN "High"
    ELSE IF py_in(kw_low, response_lower) /\ py_in(kw_priority, response_lower)
    THEN "Low"
    ELSE priority

\* parse_risk_score without the min(100, ...) of its second pattern
parse_risk_score_alternative_uncapped(response_lower) ==
    LET score_match == search_risk_score(response_lower)
    IN  IF score_match # None
        THEN Min(100, Max(0, py_int(score_match[1])))
        ELSE LET alt_match == search_over_100(response_lower)
             IN  IF alt_match # None THEN Max(0, py_int(alt_match[1]))
                 ELSE 50

\* "Extract risk score if mentioned" of _parse_response
parse_risk_score(response_lower) ==
    LET score_match == search_risk_score(response_lower)
    IN  IF score_match # None
        THEN Min(100, Max(0, py_int(score_match[1])))
        ELSE LET alt_match == search_over_100(response_lower)
             IN  IF alt_match # None
                 THEN Min(100, Max(0, py_int(alt_match[1])))
                 ELSE 50

\* AlertTriageAgentV2._parse_response(response, alert, start_time): the fields
\* of the TriageResult that depend on the response
_parse_response(response) ==
    LET response_lower == py_lower(response)
        d == parse_decision(response_lower)
    IN  [RiskScore |-> parse_risk_score(response_lower),
         Priority |-> parse_priority(response_lower, d.priority),
         TriageDecision |-> d.decision,
         Explanation |-> response,
         CorrelatedAlertIds |-> <<>>]

\* what a response says about the decision
DecisionTexts ==
    \* ''
    {<<>>,
     \* 'Based on analysis, this should be escalated to incident.\n'
     <<"B", "a", "s", "e", "d", " ", "o", "n", " ", "a", "n", "a", "l", "y",
       "s", "i", "s", ",", " ", "t", "h", "i", "s", " ", "s", "h", "o", "u",
       "l", "d", " ", "b", "e", " ", "e", "s", "c", "a", "l", "a", "t", "e",
       "d", " ", "t", "o", " ", "i", "n", "c", "i", "d", "e", "n", "t", ".",
       "\n">>,
     \* 'ESCALATE now. '
     <<"E", "S", "C", "A", "L", "A", "T", "E", " ", "n", "o", "w", ".", " ">>,
     \* 'Security Incident confirmed. '
     <<"S", "e", "c", "u", "r", "i", "t", "y", " ", "I", "n", "c", "i", "d",
       "e", "n", "t", " ", "c", "o", "n", "f", "i", "r", "m", "e", "d", ".",
       " ">>,
     \* 'Correlate with the incident we escalated. '
     <<"C", "o", "r", "r", "e", "l", "a", "t", "e", " ", "w", "i", "t", "h",
       " ", "t", "h", "e", " ", "i", "n", "c", "i", "d", "e", "n", "t", " ",
       "w", "e", " ", "e", "s", "c", "a", "l", "a", "t", "e", "d", ".", " ">>,
     \* 'This alert should be correlated with existing incidents.\n'
     <<"T", "h", "i", "s", " ", "a", "l", "e", "r", "t", " ", "s", "h", "o",
       "u", "l", "d", " ", "b", "e", " ", "c", "o", "r", "r", "e", "l", "a",
       "t", "e", "d", " ", "w", "i", "t", "h", " ", "e", "x", "i", "s", "t",
       "i", "n", "g", " ", "i", "n", "c", "i", "d", "e", "n", "t", "s", ".",
       "\n">>,
     \* 'This appears to be a False Positive; do not escalate.\n'
     <<"T", "h", "i", "s", " ", "a", "p", "p", "e", "a", "r", "s", " ", "t",
       "o", " ", "b", "e", " ", "a", " ", "F", "a", "l", "s", "e", " ", "P",
       "o", "s", "i", "t", "i", "v", "e", ";", " ", "d", "o", " ", "n", "o",
       "t", " ", "e", "s", "c", "a", "l", "a", "t", "e", ".", "\n">>,
     \* 'false-positive? '
     <<"f", "a", "l", "s", "e", "-", "p", "o", "s", "i", "t", "i", "v", "e",
       "?", " ">>,
     \* 'Unclear situation, needs review.\n'
     <<"U", "n", "c", "l", "e", "a", "r", " ", "s", "i", "t", "u", "a", "t",
       "i", "o", "n", ",", " ", "n", "e", "e", "d", "s", " ", "r", "e", "v",
       "i", "e", "w", ".", "\n">>}

\* what a response says about the risk score
ScoreTexts ==
    \* 'Risk Score: 85\n'
    {<<"R", "i", "s", "k", " ", "S", "c", "o", "r", "e", ":", " ", "8", "5",
       "\n">>,
     \* 'risk score: 150'
     <<"r", "i", "s", "k", " ", "s", "c", "o", "r", "e", ":", " ", "1", "5",
       "0">>,
     \* 'RISK\tSCORE::  7 '
     <<"R", "I", "S", "K", "\t", "S", "C", "O", "R", "E", ":", ":", " ", " ",
       "7", " ">>,
     \* 'riskscore42'
     <<"r", "i", "s", "k", "s", "c", "o", "r", "e", "4", "2">>,
     \* 'risk score is 70. '
     <<"r", "i", "s", "k", " ", "s", "c", "o", "r", "e", " ", "i", "s", " ",
       "7", "0", ".", " ">>,
     \* 'scored 85/100 on risk'
     <<"s", "c", "o", "r", "e", "d", " ", "8", "5", "/", "1", "0", "0", " ",
       "o", "n", " ", "r", "i", "s", "k">>,
     \* 'about 30 / 100 '
     <<"a", "b", "o", "u", "t", " ", "3", "0", " ", "/", " ", "1", "0", "0",
       " ">>,
     \* 'Risk score unknown, 250/100'
     <<"R", "i", "s", "k", " ", "s", "c", "o", "r", "e", " ", "u", "n", "k",
       "n", "o", "w", "n", ",", " ", "2", "5", "0", "/", "1", "0", "0">>,
     \* 'risk score: -5 '
     <<"r", "i", "s", "k", " ", "s", "c", "o", "r", "e", ":", " ", "-", "5",
       " ">>,
     \* 'rated 12/1000, risk score 9'
     <<"r", "a", "t", "e", "d", " ", "1", "2", "/", "1", "0", "0", "0", ",",
       " ", "r", "i", "s", "k", " ", "s", "c", "o", "r", "e", " ", "9">>,
     \* 'risk score: 20, later risk score: 90'
     <<"r", "i", "s", "k", " ", "s", "c", "o", "r", "e", ":", " ", "2", "0",
       ",", " ", "l", "a", "t", "e", "r", " ", "r", "i", "s", "k", " ", "s",
       "c", "o", "r", "e", ":", " ", "9", "0">>,
     \* 'risk score:'
     <<"r", "i", "s", "k", " ", "s", "c", "o", "r", "e", ":">>,
     \* 'Risk Score: 0\n'
     <<"R", "i", "s", "k", " ", "S", "c", "o", "r", "e", ":", " ", "0", "\n">>,
     \* 'brisk scores 3 and 4 / 10'
     <<"b", "r", "i", "s", "k", " ", "s", "c", "o", "r", "e", "s", " ", "3",
       " ", "a", "n", "d", " ", "4", " ", "/", " ", "1", "0">>,
     \* ''
     <<>>}

\* what a response says about the priority
PriorityTexts ==
    \* 'Priority: Critical\n'
    {<<"P", "r", "i", "o", "r", "i", "t", "y", ":", " ", "C", "r", "i", "t",
       "i", "c", "a", "l", "\n">>,
     \* 'High priority.'
     <<"H", "i", "g", "h", " ", "p", "r", "i", "o", "r", "i", "t", "y", ".">>,
     \* 'Priority: low'
     <<"P", "r", "i", "o", "r", "i", "t", "y", ":", " ", "l", "o", "w">>,
     \* 'Priority: Medium\n'
     <<"P", "r", "i", "o", "r", "i", "t", "y", ":", " ", "M", "e", "d", "i",
       "u", "m", "\n">>,
     \* 'Severity: High'
     <<"S", "e", "v", "e", "r", "i", "t", "y", ":", " ", "H", "i", "g",
       "h">>,
     \* 'Follow-up priority'
     <<"F", "o", "l", "l", "o", "w", "-", "u", "p", " ", "p", "r", "i",
       "o", "r", "i", "t", "y">>,
     \* ''
     <<>>}

\* the responses of the agent run: a decision part, a score part and a
\* priority part
Responses == {d \o s \o p : d \in DecisionTexts, s \in ScoreTexts, p \in PriorityTexts}

ParseArgs == [fn : {"_parse_response"}, response : Responses]

InitParse ==
    /\ InstanceIdle
    /\ score_in = Idle
    /\ score_out = Pending
    /\ decide_in \in ParseArgs
    /\ decide_out = Pending

\* agent._parse_response(response, alert, start_time)
ParseResponse ==
    /\ decide_in.fn = "_parse_response"
    /\ decide_out = Pending
    /\ LET r == _parse_response(decide_in.response)
       IN  decide_out' = [status |-> "done", RiskScore |-> r.RiskScore,
                          Priority |-> r.Priority,
                          TriageDecision |-> r.TriageDecision]
    /\ UNCHANGED <<impl, tasks, loader, natives, _alert_triage_agent, recent_alerts, stored, result, audit_logs, counters,
                   steps, score_in, score_out, decide_in>>

NextParse == ParseResponse

SpecParse == InitParse /\ [][NextParse]_vars


-----------------------------------------------------------------------------
(* Properties of the response parser                                       *)

\* the lower-cased response of the parse call
ResponseLower == py_lower(decide_in.response)

ParseDone == decide_out # Pending /\ decide_in.fn = "_parse_response"

\* C18: _parse_response derives the decision from keyword presence in the
\* lower-cased response with fixed precedence: 'escalate' and 'incident' both
\* present give EscalateToIncident; otherwise 'correlate' gives
\* CorrelateWithExisting; otherwise 'false positive' gives MarkAsFalsePositive;
\* otherwise RequireHumanReview.
C18_DecisionByKeyword ==
    ParseDone =>
        LET escalate == py_in(kw_escalate, ResponseLower)
            incident == py_in(kw_incident, ResponseLower)
            correlate == py_in(kw_correlate, ResponseLower)
            false_positive == py_in(kw_false_positive, ResponseLower)
        IN  /\ (escalate /\ incident) =>
                   decide_out.TriageDecision = "EscalateToIncident"
            /\ (~(escalate /\ incident) /\ correlate) =>
                   decide_out.TriageDecision = "CorrelateWithExisting"
            /\ (~(escalate /\ incident) /\ ~correlate /\ false_positive) =>
                   decide_out.TriageDecision = "MarkAsFalsePositive"
            /\ (~(escalate /\ incident) /\ ~correlate /\ ~false_positive) =>
                   decide_out.TriageDecision = "RequireHumanReview"

\* a response with capital letters that has 'escalate', 'incident' and
\* 'correlate' once lower-cased, and is escalated
C18_Witness ==
    /\ ParseDone
    /\ decide_in.response # ResponseLower
    /\ ~py_in(kw_correlate, decide_in.response)
    /\ py_in(kw_escalate, ResponseLower)
    /\ py_in(kw_incident, ResponseLower)
    /\ py_in(kw_correlate, ResponseLower)
    /\ decide_out.TriageDecision = "EscalateToIncident"

\* every character of text from position a to position b is in class
AllIn(text, a, b, class) == \A x \in a..b : text[x] \in class

\* 'risk', whitespace, 'score', colons and whitespace, then a digit at k
RiskScoreThenDigit(text, i, k) ==
    /\ has_at(text, i, kw_risk)
    /\ \E j \in (i + 4)..(k - 5) :
          /\ AllIn(text, i + 4, j - 1, Whitespace)
          /\ has_at(text, j, kw_score)
          /\ AllIn(text, j + 5, k - 1, Whitespace \cup {":"})
    /\ text[k] \in Digits

\* digits from i to e, then whitespace, '/', whitespace and '100'
DigitsOver100(text, i, e) ==
    /\ AllIn(text, i, e, Digits)
    /\ \E s \in (e + 1)..Len(text) :
          /\ AllIn(text, e + 1, s - 1, Whitespace)
          /\ text[s] = "/"
          /\ \E h \in (s + 1)..Len(text) :
                /\ AllIn(text, s + 1, h - 1, Whitespace)
                /\ has_at(text, h, kw_100)

\* the number written by the longest run of digits that starts at k
IntegerAt(text, k) ==
    LET e == CHOOSE x \in k..Len(text) :
                 /\ AllIn(text, k, x, Digits)
                 /\ (x = Len(text) \/ text[x + 1] \notin Digits)
    IN  py_int(SubSeq(text, k, e))

\* the risk score the response states: the integer of the leftmost
\* 'risk score' that an integer follows (after colons and whitespace only),
\* else the integer of the leftmost '<integer>/100', else 50; capped to 100
StatedRiskScore(text) ==
    LET first == {p \in (1..Len(text)) \X (1..Len(text)) :
                     RiskScoreThenDigit(text, p[1], p[2])}
        second == {p \in (1..Len(text)) \X (1..Len(text)) :
                      p[1] <= p[2] /\ DigitsOver100(text, p[1], p[2])}
        leftmost(S) == CHOOSE p \in S : \A q \in S : p[1] <= q[1]
        capped(n) == IF n > 100 THEN 100 ELSE n
    IN  IF first # {} THEN capped(IntegerAt(text, leftmost(first)[2]))
        ELSE IF second # {} THEN capped(IntegerAt(text, leftmost(second)[1]))
        ELSE 50

\* 'risk score: 150'
ResponseRiskScore150 ==
    <<"r", "i", "s", "k", " ", "s", "c", "o", "r", "e", ":", " ", "1", "5",
      "0">>

\* 'scored 85/100 on risk'
ResponseScored85 ==
    <<"s", "c", "o", "r", "e", "d", " ", "8", "5", "/", "1", "0", "0", " ",
      "o", "n", " ", "r", "i", "s", "k">>

\* C19: the RiskScore _parse_response produces is always in 0..100: it is the
\* first integer following 'risk score' (after colons and whitespace) capped
\* to 100, otherwise the integer preceding '/100' capped to 100, otherwise the
\* default 50; 'risk score: 150' gives 100 and 'scored 85/100 on risk' gives 85.
C19_ParsedRiskScoreBounded ==
    ParseDone =>
        /\ decide_out.RiskScore \in 0..100
        /\ decide_out.RiskScore = StatedRiskScore(ResponseLower)
        /\ decide_in.response = ResponseRiskScore150 => decide_out.RiskScore = 100
        /\ decide_in.response = ResponseScored85 => decide_out.RiskScore = 85

\* a response that names the risk score without a number after it and
\* writes 250/100 later: the second pattern applies and is capped
C19_Witness ==
    /\ ParseDone
    /\ py_in(kw_risk \o <<" ">> \o kw_score, ResponseLower)
    /\ search_risk_score(ResponseLower) = None
    /\ search_over_100(ResponseLower) = Some(<<"2", "5", "0">>)
    /\ decide_out.RiskScore = 100


-----------------------------------------------------------------------------
(* AlertTriageAgentV2.triage_alert                                         *)

\* the exceptions self._loader.run raises
RunErrors == {"Test error", "TimeoutError"}

\* the responses self._loader.run returns
RunResponses ==
    {<<"A", "n", "a", "l", "y", "s", "i", "s", " ", "c", "o", "m", "p", "l",
       "e", "t", "e", ".", "\n", "R", "i", "s", "k", " ", "S", "c", "o", "r",
       "e", ":", " ", "7", "5", "\n", "D", "e", "c", "i", "s", "i", "o", "n",
       ":", " ", "E", "s", "c", "a", "l", "a", "t", "e", " ", "t", "o", " ",
       "I", "n", "c", "i", "d", "e", "n", "t", "\n", "P", "r", "i", "o", "r",
       "i", "t", "y", ":", " ", "H", "i", "g", "h", "\n">>,
     <<"r", "i", "s", "k", " ", "s", "c", "o", "r", "e", ":", " ", "1", "5",
       "0">>,
     <<"L", "i", "k", "e", "l", "y", " ", "a", " ", "f", "a", "l", "s", "e",
       " ", "p", "o", "s", "i", "t", "i", "v", "e", ".", " ", "1", "0", "/",
       "1", "0", "0">>}

\* what "await self._loader.run(input_text=alert_context)" does
RunOutcomes ==
    [kind : {"raises"}, error : RunErrors]
    \cup [kind : {"returns"}, response : RunResponses]

\* triage_alert_v2 counting a failed triage on alerts_triaged_total
triage_alert_v2_failure_counted_as_triaged(alert_ref, outcome) ==
    LET alert == AlertObj[alert_ref]
        parsed == _parse_response(outcome.response)
    IN  IF outcome.kind = "returns" /\ TriageResultValid(parsed)
        THEN [result |-> [kind |-> "triage", alert |-> alert_ref,
                          AlertId |-> alert.SystemAlertId,
                          RiskScore |-> parsed.RiskScore,
                          Priority |-> parsed.Priority,
                          TriageDecision |-> parsed.TriageDecision,
                          Explanation |-> parsed.Explanation,
                          CorrelatedAlertIds |-> parsed.CorrelatedAlertIds],
              audit |-> <<AuditEntry(alert_ref, "Success")>>,
              alerts_triaged_total |-> 1,
              alerts_triage_failed_total |-> 0]
        ELSE [result |-> [kind |-> "raised", alert |-> alert_ref,
                          error |-> IF outcome.kind = "raises" THEN outcome.error
                                    ELSE "ValidationError"],
              audit |-> <<AuditEntry(alert_ref, "Failure")>>,
              alerts_triaged_total |-> 1,
              alerts_triage_failed_total |-> 0]

\* AlertTriageAgentV2.triage_alert(alert), given what the run does: what it
\* returns or raises, the audit entries it logs and what it adds to the two
\* counters.  log_agent_action appends one entry to _audit_logs (its
\* CorrelationId comes from get_correlation_id, which audit.py imports from
\* src/shared/logging.py; it is taken to return a UUID string).
triage_alert_v2(alert_ref, outcome) ==
    LET alert == AlertObj[alert_ref]
        parsed == _parse_response(outcome.response)
    IN  IF outcome.kind = "returns" /\ TriageResultValid(parsed)
        THEN [result |-> [kind |-> "triage", alert |-> alert_ref,
                          AlertId |-> alert.SystemAlertId,
                          RiskScore |-> parsed.RiskScore,
                          Priority |-> parsed.Priority,
                          TriageDecision |-> parsed.TriageDecision,
                          Explanation |-> parsed.Explanation,
                          CorrelatedAlertIds |-> parsed.CorrelatedAlertIds],
              audit |-> <<AuditEntry(alert_ref, "Success")>>,
              alerts_triaged_total |-> 1,
              alerts_triage_failed_total |-> 0]
        ELSE [result |-> [kind |-> "raised", alert |-> alert_ref,
                          error |-> IF outcome.kind = "raises" THEN outcome.error
                                    ELSE "ValidationError"],
              audit |-> <<AuditEntry(alert_ref, "Failure")>>,
              alerts_triaged_total |-> 0,
              alerts_triage_failed_total |-> 1]

\* a new AlertTriageAgentV2; the audit service and the counters are the
\* process-wide ones, empty at start
InitV2 ==
    /\ impl = "v2"
    /\ recent_alerts = <<>>
    /\ stored = <<>>
    /\ result = NoResult
    /\ audit_logs = <<>>
    /\ counters = [alerts_triaged_total |-> 0, alerts_triage_failed_total |-> 0]
    /\ steps = 0
    /\ tasks = <<>>
    /\ ComponentsIdle
    /\ ScoringIdle

\* await agent.triage_alert(alert) on an AlertTriageAgentV2
TriageAlertV2(alert_ref, outcome) ==
    /\ impl = "v2"
    /\ steps < MaxSteps
    /\ steps' = steps + 1
    /\ LET r == triage_alert_v2(alert_ref, outcome)
       IN  /\ result' = r.result
           /\ audit_logs' = audit_logs \o r.audit
           /\ counters' =
                  [alerts_triaged_total |->
                       counters.alerts_triaged_total + r.alerts_triaged_total,
                   alerts_triage_failed_total |->
                       counters.alerts_triage_failed_total
                         + r.alerts_triage_failed_total]
    /\ UNCHANGED <<impl, tasks, loader, natives, _alert_triage_agent, recent_alerts, stored,
                   score_in, score_out, decide_in, decide_out>>

NextV2 == \E a \in AlertRefs, o \in RunOutcomes : TriageAlertV2(a, o)

SpecV2 == InitV2 /\ [][NextV2]_vars

\* the audit entries with the given result
EntriesWith(logs, res) == {i \in 1..Len(logs) : logs[i].result = res}

\* C20: when the underlying agent run raises, AlertTriageAgentV2.triage_alert
\* re-raises that exception after recording exactly one FAILURE audit entry
\* and incrementing alerts_triage_failed_total by one, leaving
\* alerts_triaged_total unchanged and recording no SUCCESS entry; when the run
\* succeeds it records exactly one SUCCESS audit entry, increments
\* alerts_triaged_total by one and leaves alerts_triage_failed_total unchanged.
C20_V2FailureAndSuccessPaths ==
    [][\A a \in AlertRefs, o \in RunOutcomes :
          TriageAlertV2(a, o) =>
              /\ Len(audit_logs') = Len(audit_logs) + 1
              /\ SubSeq(audit_logs', 1, Len(audit_logs)) = audit_logs
              /\ audit_logs'[Len(audit_logs')].target_entity_id
                   = AlertObj[a].SystemAlertId
              /\ IF o.kind = "raises"
                 THEN /\ result'.kind = "raised"
                      /\ result'.error = o.error
                      /\ audit_logs'[Len(audit_logs')].result = "Failure"
                      /\ counters'.alerts_triage_failed_total
                           = counters.alerts_triage_failed_total + 1
                      /\ counters'.alerts_triaged_total
                           = counters.alerts_triaged_total
                 ELSE /\ result'.kind = "triage"
                      /\ audit_logs'[Len(audit_logs')].result = "Success"
                      /\ counters'.alerts_triaged_total
                           = counters.alerts_triaged_total + 1
                      /\ counters'.alerts_triage_failed_total
                           = counters.alerts_triage_failed_total]_vars

\* a call whose run raised, then a call whose run returned
C20_Witness ==
    /\ impl = "v2"
    /\ steps = 2
    /\ result.kind = "triage"
    /\ Len(audit_logs) = 2
    /\ audit_logs[1].result = "Failure"
    /\ audit_logs[2].result = "Success"
    /\ counters = [alerts_triaged_total |-> 1, alerts_triage_failed_total |-> 1]

-----------------------------------------------------------------------------
(* FoundryAgentLoader: the cached agent and the agent factory              *)

\* number of calls made on one loader
MaxLoaderCalls == 5

\* what AgentFactory.create_agent_from_yaml_path and ChatAgent.run can do
CallOutcomes == {"returns", "raises"}

\* FoundryAgentLoader.agent_factory: the factory, made on first access
agent_factory(l) ==
    IF l._agent_factory = None THEN [call_count |-> 0] ELSE l._agent_factory[1]

\* number of create_agent_from_yaml_path calls made through the loader
FactoryCalls(l) ==
    IF l._agent_factory = None THEN 0 ELSE l._agent_factory[1].call_count

\* create_agent that reuses the cached agent even when force_recreate is set
create_agent_ignoring_force_recreate(l, force_recreate, factory_outcome) ==
    IF l._agent # None
    THEN [loader |-> l, kind |-> "returned", value |-> l._agent]
    ELSE LET f == [call_count |-> agent_factory(l).call_count + 1]
         IN  IF factory_outcome = "raises"
             THEN [loader |-> [l EXCEPT !._agent_factory = <<f>>],
                   kind |-> "raised", value |-> <<[error |-> "factory error"]>>]
             ELSE [loader |-> [_agent |-> <<[agent |-> f.call_count]>>,
                               _agent_factory |-> <<f>>],
                   kind |-> "returned", value |-> <<[agent |-> f.call_count]>>]

\* FoundryAgentLoader.create_agent(force_recreate=...): the loader afterwards
\* and what the call returns or raises.  Each agent the factory returns is a
\* new object, named by the number of the factory call that made it.  An
\* Optional field is None or the one-element sequence of its value.
create_agent(l, force_recreate, factory_outcome) ==
    IF l._agent # None /\ ~force_recreate
    THEN [loader |-> l, kind |-> "returned", value |-> l._agent]
    ELSE LET f == [call_count |-> agent_factory(l).call_count + 1]
         IN  IF factory_outcome = "raises"
             THEN [loader |-> [l EXCEPT !._agent_factory = <<f>>],
                   kind |-> "raised", value |-> <<[error |-> "factory error"]>>]
             ELSE [loader |-> [_agent |-> <<[agent |-> f.call_count]>>,
                               _agent_factory |-> <<f>>],
                   kind |-> "returned", value |-> <<[agent |-> f.call_count]>>]

\* FoundryAgentLoader.run(input_text): create_agent() when nothing is cached,
\* then the cached agent's run
loader_run(l, factory_outcome, run_outcome) ==
    LET c == IF l._agent = None THEN create_agent(l, FALSE, factory_outcome)
             ELSE [loader |-> l, kind |-> "returned", value |-> l._agent]
    IN  IF c.kind = "raised" THEN c
        ELSE IF run_outcome = "raises"
        THEN [loader |-> c.loader, kind |-> "raised",
              value |-> <<[error |-> "run error"]>>]
        ELSE [loader |-> c.loader, kind |-> "returned",
              value |-> <<[text |-> "response text"]>>]

\* a new FoundryAgentLoader
InitLoader ==
    /\ InstanceIdle
    /\ ScoringIdle

\* what a loader call leaves alone
LoaderFrame ==
    UNCHANGED <<impl, tasks, natives, _alert_triage_agent, recent_alerts, stored,
                audit_logs, counters, score_in, score_out, decide_in, decide_out>>

\* loader.create_agent(force_recreate=force_recreate)
CreateAgent(force_recreate, factory_outcome) ==
    /\ steps < MaxLoaderCalls
    /\ steps' = steps + 1
    /\ LET r == create_agent(loader, force_recreate, factory_outcome)
       IN  /\ loader' = r.loader
           /\ result' = [call |-> "create_agent", kind |-> r.kind, value |-> r.value]
    /\ LoaderFrame

\* await loader.run(input_text)
LoaderRun(factory_outcome, run_outcome) ==
    /\ steps < MaxLoaderCalls
    /\ steps' = steps + 1
    /\ LET r == loader_run(loader, factory_outcome, run_outcome)
       IN  /\ loader' = r.loader
           /\ result' = [call |-> "run", kind |-> r.kind, value |-> r.value]
    /\ LoaderFrame

\* loader.get_agent()
GetAgent ==
    /\ steps < MaxLoaderCalls
    /\ steps' = steps + 1
    /\ result' = [call |-> "get_agent", kind |-> "returned", value |-> loader._agent]
    /\ UNCHANGED loader
    /\ LoaderFrame

\* loader.reset()
Reset ==
    /\ steps < MaxLoaderCalls
    /\ steps' = steps + 1
    /\ loader' = [loader EXCEPT !._agent = None]
    /\ result' = [call |-> "reset", kind |-> "returned", value |-> None]
    /\ LoaderFrame

NextLoader ==
    \/ \E force_recreate \in BOOLEAN, o \in CallOutcomes : CreateAgent(force_recreate, o)
    \/ \E o1 \in CallOutcomes, o2 \in CallOutcomes : LoaderRun(o1, o2)
    \/ GetAgent
    \/ Reset

SpecLoader == InitLoader /\ [][NextLoader]_vars

\* the step invokes the factory once / not at all
FactoryInvoked == FactoryCalls(loader') = FactoryCalls(loader) + 1
FactoryNotInvoked == FactoryCalls(loader') = FactoryCalls(loader)

\* C21: over any sequence of create_agent, run, get_agent and reset calls the
\* agent factory is invoked exactly when create_agent is called with
\* force_recreate=True or when create_agent or run is called while no agent is
\* cached; otherwise the cached agent is returned unchanged, get_agent never
\* invokes the factory, and after reset get_agent returns None until the next
\* creation.
C21_FactoryInvokedExactlyWhenNeeded ==
    [][/\ \A force_recreate \in BOOLEAN, o \in CallOutcomes :
             CreateAgent(force_recreate, o) =>
                 IF force_recreate \/ loader._agent = None
                 THEN FactoryInvoked
                 ELSE /\ FactoryNotInvoked
                      /\ loader'._agent = loader._agent
                      /\ result'.kind = "returned"
                      /\ result'.value = loader._agent
       /\ \A o1 \in CallOutcomes, o2 \in CallOutcomes :
             LoaderRun(o1, o2) =>
                 IF loader._agent = None
                 THEN FactoryInvoked
                 ELSE FactoryNotInvoked /\ loader'._agent = loader._agent
       /\ GetAgent =>
             /\ FactoryNotInvoked
             /\ loader'._agent = loader._agent
             /\ result'.value = loader._agent
       /\ Reset => FactoryNotInvoked /\ loader'._agent = None
       /\ (loader._agent = None /\ loader'._agent # None) => FactoryInvoked
      ]_vars

\* get_agent returned None on a loader whose factory has been invoked twice
C21_Witness ==
    /\ result # NoResult
    /\ FactoryCalls(loader) = 2
    /\ loader._agent = None
    /\ result.call = "get_agent"
    /\ result.value = None

-----------------------------------------------------------------------------
(* FoundryNativeAgent and the module-level agent management of src.agents   *)

\* number of calls made on the agents and on the module
MaxNativeCalls == 4

\* what open() and yaml.safe_load find at agent_yaml_path
YamlFiles == {"valid", "missing", "malformed"}

\* the exception initialize() raises for each unusable file
YamlError ==
    [missing |-> "FileNotFoundError", malformed |-> "YAMLError"]

\* FoundryNativeAgent.__init__; agent_run_calls counts the calls of the
\* underlying ChatAgent.run and close_calls the calls of close()
NewNativeAgent ==
    [agent_config |-> None, project_client |-> None, agent |-> None,
     credential |-> None, _initialized |-> FALSE,
     agent_run_calls |-> 0, close_calls |-> 0]

\* a reference to the i-th FoundryNativeAgent constructed
Ref(i) == <<[native |-> i]>>

Returned(obj, v) == [obj |-> obj, kind |-> "returned", value |-> v]

Raised(obj, e) == [obj |-> obj, kind |-> "raised", value |-> <<[error |-> e]>>]

\* initialize() that marks the agent initialized before loading the YAML file
initialize_marking_first(o, yaml, endpoint) ==
    IF o._initialized THEN Returned(o, None)
    ELSE IF yaml # "valid"
    THEN Raised([o EXCEPT !._initialized = TRUE], YamlError[yaml])
    ELSE Returned([o EXCEPT
                     !.agent_config = <<"config">>,
                     !.credential = <<"DefaultAzureCredential">>,
                     !.project_client =
                         IF endpoint THEN <<"AIProjectClient">> ELSE None,
                     !.agent = IF endpoint THEN <<"ChatAgent">> ELSE None,
                     !._initialized = TRUE],
                  None)

\* FoundryNativeAgent.initialize(): endpoint tells whether
\* AZURE_AI_PROJECT_ENDPOINT or AZURE_AI_FOUNDRY_ENDPOINT is set
initialize(o, yaml, endpoint) ==
    IF o._initialized THEN Returned(o, None)
    ELSE IF yaml # "valid" THEN Raised(o, YamlError[yaml])
    ELSE Returned([o EXCEPT
                     !.agent_config = <<"config">>,
                     !.credential = <<"DefaultAzureCredential">>,
                     !.project_client =
                         IF endpoint THEN <<"AIProjectClient">> ELSE None,
                     !.agent = IF endpoint THEN <<"ChatAgent">> ELSE None,
                     !._initialized = TRUE],
                  None)

\* FoundryNativeAgent.run(query)
native_run(o, run_outcome) ==
    IF ~o._initialized
    THEN Raised(o, "RuntimeError: Agent not initialized. Call initialize() first.")
    ELSE IF o.agent = None
    THEN Raised(o, "RuntimeError: Agent is not available (no Azure endpoint configured)")
    ELSE LET ran == [o EXCEPT !.agent_run_calls = @ + 1]
         IN  IF run_outcome = "raises" THEN Raised(ran, "run error")
             ELSE Returned(ran, <<[text |-> "response"]>>)

\* FoundryNativeAgent.close(): closes the credential and the project client
\* when they are set; close_outcome is what those awaited close() calls do
close(o, close_outcome) ==
    LET called == [o EXCEPT !.close_calls = @ + 1]
    IN  IF o.credential # None /\ close_outcome = "raises"
        THEN Raised(called, "close error")
        ELSE Returned(called, None)

\* no FoundryNativeAgent yet, the module imported
InitNative ==
    /\ InstanceIdle
    /\ ScoringIdle

\* what a call on an agent or on the module leaves alone
NativeFrame ==
    UNCHANGED <<impl, tasks, loader, recent_alerts, stored, audit_logs, counters,
                score_in, score_out, decide_in, decide_out>>

\* the call is made, and what it returned or raised is kept
NativeCall(name, target, kind, value) ==
    /\ steps < MaxNativeCalls
    /\ steps' = steps + 1
    /\ result' = [call |-> name, target |-> target, kind |-> kind, value |-> value]
    /\ NativeFrame

\* agent = FoundryNativeAgent(agent_yaml_path=...)
Construct ==
    /\ natives' = Append(natives, NewNativeAgent)
    /\ UNCHANGED _alert_triage_agent
    /\ NativeCall("FoundryNativeAgent", Len(natives) + 1, "returned", None)

\* await agent.initialize()
Initialize(i, yaml, endpoint) ==
    /\ i \in DOMAIN natives
    /\ LET r == initialize(natives[i], yaml, endpoint)
       IN  /\ natives' = [natives EXCEPT ![i] = r.obj]
           /\ NativeCall("initialize", i, r.kind, r.value)
    /\ UNCHANGED _alert_triage_agent

\* await agent.run(query)
NativeRun(i, run_outcome) ==
    /\ i \in DOMAIN natives
    /\ LET r == native_run(natives[i], run_outcome)
       IN  /\ natives' = [natives EXCEPT ![i] = r.obj]
           /\ NativeCall("run", i, r.kind, r.value)
    /\ UNCHANGED _alert_triage_agent

\* await agent.close()
Close(i, close_outcome) ==
    /\ i \in DOMAIN natives
    /\ LET r == close(natives[i], close_outcome)
       IN  /\ natives' = [natives EXCEPT ![i] = r.obj]
           /\ NativeCall("close", i, r.kind, r.value)
    /\ UNCHANGED _alert_triage_agent

\* await initialize_agents(): exists is os.path.exists(alert_triage_yaml)
InitializeAgents(exists, yaml, endpoint) ==
    IF exists
    THEN LET r == initialize(NewNativeAgent, yaml, endpoint)
         IN  /\ natives' = Append(natives, r.obj)
             /\ _alert_triage_agent' = Ref(Len(natives) + 1)
             /\ NativeCall("initialize_agents", 0, r.kind, r.value)
    ELSE /\ _alert_triage_agent' = None
         /\ UNCHANGED natives
         /\ NativeCall("initialize_agents", 0, "returned", None)

\* get_alert_triage_agent()
GetAlertTriageAgent ==
    /\ UNCHANGED <<natives, _alert_triage_agent>>
    /\ IF _alert_triage_agent = None
       THEN NativeCall("get_alert_triage_agent", 0, "raised",
                       <<[error |-> "RuntimeError: alert-triage-agent not initialized."]>>)
       ELSE NativeCall("get_alert_triage_agent", 0, "returned", _alert_triage_agent)

\* await cleanup_agents()
CleanupAgents(close_outcome) ==
    IF _alert_triage_agent = None
    THEN /\ UNCHANGED <<natives, _alert_triage_agent>>
         /\ NativeCall("cleanup_agents", 0, "returned", None)
    ELSE LET i == _alert_triage_agent[1].native
             r == close(natives[i], close_outcome)
         IN  /\ natives' = [natives EXCEPT ![i] = r.obj]
             /\ _alert_triage_agent' =
                    IF r.kind = "raised" THEN _alert_triage_agent ELSE None
             /\ NativeCall("cleanup_agents", 0, r.kind, r.value)

NextNative ==
    \/ Construct
    \/ \E i \in DOMAIN natives, y \in YamlFiles, e \in BOOLEAN : Initialize(i, y, e)
    \/ \E i \in DOMAIN natives, o \in CallOutcomes : NativeRun(i, o)
    \/ \E i \in DOMAIN natives, o \in CallOutcomes : Close(i, o)
    \/ \E x \in BOOLEAN, y \in YamlFiles, e \in BOOLEAN : InitializeAgents(x, y, e)
    \/ GetAlertTriageAgent
    \/ \E o \in CallOutcomes : CleanupAgents(o)

SpecNative == InitNative /\ [][NextNative]_vars

\* agent.is_initialized before the step, False for an agent not yet constructed
WasInitialized(i) == i \in DOMAIN natives /\ natives[i]._initialized

\* C22: is_initialized is False until an initialize() call returns normally;
\* an initialize() that fails on a missing or malformed YAML file leaves it
\* False; an initialize() call on an already initialized agent changes no
\* state; and run() raises RuntimeError without invoking the underlying agent
\* in every state where is_initialized is False.
C22_NativeAgentLifecycle ==
    [][/\ \A i \in DOMAIN natives' :
             (~WasInitialized(i) /\ natives'[i]._initialized) =>
                 /\ result'.kind = "returned"
                 /\ \/ result'.call = "initialize" /\ result'.target = i
                    \/ result'.call = "initialize_agents" /\ i = Len(natives')
       /\ \A i \in DOMAIN natives, y \in YamlFiles, e \in BOOLEAN :
             Initialize(i, y, e) =>
                 /\ (~natives[i]._initialized /\ y # "valid") =>
                        /\ result'.kind = "raised"
                        /\ ~natives'[i]._initialized
                 /\ natives[i]._initialized =>
                        /\ result'.kind = "returned"
                        /\ natives' = natives
                        /\ _alert_triage_agent' = _alert_triage_agent
       /\ \A i \in DOMAIN natives, o \in CallOutcomes :
             (NativeRun(i, o) /\ ~natives[i]._initialized) =>
                 /\ result'.kind = "raised"
                 /\ result'.value[1].error
                      = "RuntimeError: Agent not initialized. Call initialize() first."
                 /\ natives'[i].agent_run_calls = natives[i].agent_run_calls
      ]_vars

\* the one agent constructed is initialized with an endpoint after three
\* calls on it, none of which reached the underlying agent
C22_Witness ==
    /\ result # NoResult
    /\ steps = 4
    /\ Len(natives) = 1
    /\ natives[1]._initialized
    /\ natives[1].agent # None
    /\ natives[1].agent_run_calls = 0
    /\ result.call = "initialize"
    /\ result.kind = "returned"

\* C23: over any sequence of initialize_agents, get_alert_triage_agent and
\* cleanup_agents calls, get_alert_triage_agent raises RuntimeError whenever
\* no agent is held (before any initialization, after an initialize_agents
\* that found no YAML file, after cleanup_agents) and otherwise returns the
\* held agent; cleanup_agents calls close() on the held agent exactly once
\* and then holds no agent.
C23_AgentManagement ==
    [][/\ GetAlertTriageAgent =>
             IF _alert_triage_agent = None
             THEN result'.kind = "raised"
             ELSE result'.kind = "returned" /\ result'.value = _alert_triage_agent
       /\ \A y \in YamlFiles, e \in BOOLEAN :
             InitializeAgents(FALSE, y, e) => _alert_triage_agent' = None
       /\ \A o \in CallOutcomes :
             CleanupAgents(o) =>
                 /\ _alert_triage_agent' = None
                 /\ \A i \in DOMAIN natives :
                        natives'[i].close_calls =
                            natives[i].close_calls
                              + (IF _alert_triage_agent = Ref(i) THEN 1 ELSE 0)
      ]_vars

-----------------------------------------------------------------------------
(* The decision table against the rule-based agent                         *)

\* the priority the decision table pairs with a decision at a risk score
DecisionTablePriority(decision, risk_score) ==
    CASE decision = "EscalateToIncident" ->
             IF risk_score >= 80 THEN "Critical" ELSE "High"
      [] decision = "CorrelateWithExisting" -> "Medium"
      [] decision = "MarkAsFalsePositive" -> "Low"
      [] decision = "RequireHumanReview" -> "Medium"

\* C24: every TriageResult produced by the rule-based triage_alert pairs
\* decision and priority as the decision table states: EscalateToIncident has
\* priority Critical when riskScore >= 80 and High otherwise,
\* CorrelateWithExisting has priority Medium, MarkAsFalsePositive has priority
\* Low, and RequireHumanReview has priority Medium.
C24_DecisionPriorityPairing ==
    (impl = "agent" /\ result.kind = "triage") =>
        result.Priority =
            DecisionTablePriority(result.TriageDecision, result.RiskScore)

-----------------------------------------------------------------------------
(* AlertTriageTools of alert_triage_agent.py: the AI-function tools         *)

\* find_correlated_alerts looking the entities up in the stored window
tool_find_correlated_alerts_reading_window(alert_entities) ==
    LET entity_set ==
            {<<alert_entities[i].type, alert_entities[i].value>> :
                 i \in {k \in DOMAIN alert_entities :
                            alert_entities[k].type # ""
                            /\ alert_entities[k].value # ""}}
        hits == SelectSeq(recent_alerts,
                    LAMBDA a : \E e \in entity_set, k \in DOMAIN AlertObj[a].Entities :
                        \E f \in DOMAIN AlertObj[a].Entities[k].Properties :
                            AlertObj[a].Entities[k].Properties[f] = e[2])
    IN  [correlated_count |-> Len(hits),
         correlated_alerts |-> hits,
         has_correlation |-> hits # <<>>]

\* AlertTriageTools.find_correlated_alerts(alert_entities) of
\* alert_triage_agent.py: a function without self; it collects the
\* (type, value) pairs and returns the fixed result
tool_find_correlated_alerts(alert_entities) ==
    LET entity_set ==
            {<<alert_entities[i].type, alert_entities[i].value>> :
                 i \in {k \in DOMAIN alert_entities :
                            alert_entities[k].type # ""
                            /\ alert_entities[k].value # ""}}
    IN  [correlated_count |-> 0,
         correlated_alerts |-> <<>>,
         has_correlation |-> FALSE]

\* AlertTriageTools() after n store_alert calls for the pre-filled alert
InitTools ==
    \E n \in ConcPrefill, f \in PrefillAlerts :
        /\ impl = "ai_function"
        /\ recent_alerts = Rep(f, n)
        /\ stored = Rep(f, n)
        /\ result = NoResult
        /\ audit_logs = <<>>
        /\ counters = [alerts_triaged_total |-> 0, alerts_triage_failed_total |-> 0]
        /\ steps = 0
        /\ tasks = <<>>
        /\ ComponentsIdle
        /\ ScoringIdle

\* tools.store_alert(alert): the same append and pop as the framework's
ToolStoreAlert(alert_ref) ==
    /\ impl = "ai_function"
    /\ steps < MaxSteps
    /\ steps' = steps + 1
    /\ recent_alerts' = store_alert(recent_alerts, alert_ref)
    /\ stored' = Append(stored, alert_ref)
    /\ result' = [kind |-> "store"]
    /\ UNCHANGED <<impl, tasks, loader, natives, _alert_triage_agent, audit_logs,
                   counters, score_in, score_out, decide_in, decide_out>>

\* the find_correlated_alerts tool called with alert_entities
ToolFindCorrelatedAlerts(alert_entities) ==
    /\ impl = "ai_function"
    /\ steps < MaxSteps
    /\ steps' = steps + 1
    /\ result' = [kind |-> "tool_correlation", alert_entities |-> alert_entities,
                  returned |-> tool_find_correlated_alerts(alert_entities)]
    /\ UNCHANGED <<impl, tasks, loader, natives, _alert_triage_agent, recent_alerts,
                   stored, audit_logs, counters,
                   score_in, score_out, decide_in, decide_out>>

NextTools ==
    \/ \E a \in AlertRefs : ToolStoreAlert(a)
    \/ \E e \in ToolEntityLists : ToolFindCorrelatedAlerts(e)

SpecTools == InitTools /\ [][NextTools]_vars

\* C25: in the AI-function agent the find_correlated_alerts tool reports
\* has_correlation=false, correlated_count=0 and an empty correlated_alerts
\* list for every input entity list and every content of the stored
\* recent-alerts window, so alerts stored by store_alert never influence any
\* correlation result.
C25_ToolCorrelationAlwaysEmpty ==
    (result.kind = "tool_correlation") =>
        /\ result.returned.has_correlation = FALSE
        /\ result.returned.correlated_count = 0
        /\ result.returned.correlated_alerts = <<>>

\* the tool asked about the entities of a1 right after store_alert stored a1
C25_Witness ==
    /\ result.kind = "tool_correlation"
    /\ recent_alerts # <<>>
    /\ recent_alerts[Len(recent_alerts)] = "a1"
    /\ result.alert_entities = entities_list(AlertObj["a1"].Entities)

-----------------------------------------------------------------------------
(* Two classification or decision calls on the same risk score             *)

\* a call of one of the three functions, without its risk score
DecideCalls ==
    [fn : {"_determine_priority"}, severity : SeverityLevel]
    \cup [fn : {"_make_triage_decision"}, correlated_alerts : CorrelatedLists]
    \cup [fn : {"make_triage_decision"}, has_correlation : BOOLEAN]

\* what the call returns for the risk score: the priority, the decision, or
\* both ("" for the part the function does not return)
decide_returns(call, risk_score) ==
    CASE call.fn = "_determine_priority" ->
             [priority |-> _determine_priority(risk_score, call.severity),
              decision |-> ""]
      [] call.fn = "_make_triage_decision" ->
             [priority |-> "",
              decision |-> _make_triage_decision(risk_score, call.correlated_alerts)]
      [] call.fn = "make_triage_decision" ->
             make_triage_decision(risk_score, call.has_correlation)

\* a risk score and the two calls to be made with it
InitPair ==
    /\ InstanceIdle
    /\ score_in = Idle
    /\ score_out = Pending
    /\ decide_in \in [fn : {"pair"}, risk_score : RiskScores,
                      first : DecideCalls, second : DecideCalls]
    /\ decide_out = Pending

\* the first call; the caller keeps what it returned
FirstCall ==
    /\ decide_in.fn = "pair"
    /\ result = NoResult
    /\ result' = [kind |-> "decided",
                  returned |-> decide_returns(decide_in.first, decide_in.risk_score)]
    /\ UNCHANGED <<impl, tasks, loader, natives, _alert_triage_agent, recent_alerts,
                   stored, audit_logs, counters, steps,
                   score_in, score_out, decide_in, decide_out>>

\* the second call, made after the first returned
SecondCall ==
    /\ decide_in.fn = "pair"
    /\ result # NoResult
    /\ decide_out = Pending
    /\ LET r == decide_returns(decide_in.second, decide_in.risk_score)
       IN  decide_out' = [status |-> "done", decision |-> r.decision,
                          priority |-> r.priority]
    /\ UNCHANGED <<impl, tasks, loader, natives, _alert_triage_agent, recent_alerts,
                   stored, result, audit_logs, counters, steps,
                   score_in, score_out, decide_in>>

NextPair == FirstCall \/ SecondCall

SpecPair == InitPair /\ [][NextPair]_vars

\* both calls of the pair have returned
PairDone == decide_in.fn = "pair" /\ decide_out # Pending

\* the correlation flag a decision call was made with
CallCorrelation(call) ==
    IF call.fn = "make_triage_decision" THEN call.has_correlation
    ELSE call.correlated_alerts # <<>>

\* C26: the priority computed inside make_triage_decision and the priority
\* computed by the 80/60/40 classification agree for every riskScore in
\* 0..100 and either value of hasCorrelation, except exactly on riskScore
\* 30..39 (Medium versus Low) and riskScore 60..69 (Medium versus High).
C26_PriorityVariantsDisagreement ==
    (/\ PairDone
     /\ decide_in.first.fn = "make_triage_decision"
     /\ decide_in.second.fn = "_determine_priority"
     /\ decide_in.risk_score \in 0..100) =>
        LET r == decide_in.risk_score
            decided == result.returned.priority
            classified == decide_out.priority
        IN  /\ (decided = classified) <=> ~(r \in 30..39 \/ r \in 60..69)
            /\ r \in 30..39 => decided = "Medium" /\ classified = "Low"
            /\ r \in 60..69 => decided = "Medium" /\ classified = "High"

\* the two priorities computed at risk score 65 with a correlation
C26_Witness ==
    /\ PairDone
    /\ decide_in.first = [fn |-> "make_triage_decision", has_correlation |-> TRUE]
    /\ decide_in.second.fn = "_determine_priority"
    /\ decide_in.risk_score = 65
    /\ result.returned.priority # decide_out.priority

\* C27: the correlation flag influences the decision only in the band
\* 40 <= riskScore <= 69: for every riskScore >= 70 and every riskScore < 40
\* the decision with hasCorrelation=true equals the decision with
\* hasCorrelation=false; in particular a score in 30..39 yields
\* RequireHumanReview even when correlated alerts exist.
C27_CorrelationOnlyInBand ==
    (/\ PairDone
     /\ decide_in.first.fn = decide_in.second.fn
     /\ decide_in.first.fn \in {"_make_triage_decision", "make_triage_decision"}) =>
        LET r == decide_in.risk_score
        IN  /\ (r >= 70 \/ r < 40) =>
                   result.returned.decision = decide_out.decision
            /\ r \in 30..39 =>
                   /\ result.returned.decision = "RequireHumanReview"
                   /\ decide_out.decision = "RequireHumanReview"

\* the agent's decision at risk score 35, first with two correlated alerts
\* and then with none
C27_Witness ==
    /\ PairDone
    /\ decide_in.risk_score = 35
    /\ decide_in.first = [fn |-> "_make_triage_decision",
                          correlated_alerts |-> <<"a2", "a4">>]
    /\ decide_in.second = [fn |-> "_make_triage_decision",
                           correlated_alerts |-> <<>>]
    /\ decide_out.decision = "RequireHumanReview"

-----------------------------------------------------------------------------
(* The range of the rule-based agent's score                               *)

\* C28: in the rule-based agent, for every alert with confidence in 0..100
\* the risk score lies in 25..90 (the fixed placeholders contribute 20 and
\* the clamp to 100 is never active), and therefore an alert of severity Low,
\* Medium or High is never decided MarkAsFalsePositive: only Informational
\* alerts can score below 30.
C28_AgentScoreRange ==
    (/\ ScoreDone
     /\ score_in.fn = "_calculate_risk_score"
     /\ ScoredConfidence \in 0..100) =>
        /\ score_out.risk_score >= 25
        /\ score_out.risk_score <= 90
        /\ score_out.risk_score =
               DictGet(severity_scores, ScoredSeverity, 10)
                 + Min(ScoredEntityCount * 2, 10)
                 + Min(ScoredTechniqueCount * 5, 20)
                 + 20
                 + ScoredConfidence \div 10
        /\ ScoredSeverity # "Informational" =>
               /\ score_out.risk_score >= 30
               /\ \A c \in CorrelatedLists :
                      _make_triage_decision(score_out.risk_score, c)
                          # "MarkAsFalsePositive"

\* a Low alert without entities, techniques and confidence scores exactly 30
C28_Witness ==
    /\ ScoreDone
    /\ score_in.fn = "_calculate_risk_score"
    /\ ScoredSeverity = "Low"
    /\ ScoredConfidence = 0
    /\ score_out.risk_score = 30

-----------------------------------------------------------------------------
(* What a triage_alert call of the rule-based agent does to the window      *)

\* the coroutine t takes a step
TaskStep(t) == t \in DOMAIN tasks /\ tasks'[t] # tasks[t]

\* no call has stored its alert yet
NothingStored == \A t \in DOMAIN tasks : tasks[t].pc # "returned"

\* C29: in the rule-based agent the recent-alerts window changes only as the
\* last state change of a successful triage_alert: the alert is appended
\* exactly once, after its own correlation lookup has been computed (so an
\* alert never finds itself on its first triage); scoring, classification,
\* correlation and decision leave the window unchanged, and when
\* triage_alert raises the window is exactly as before the call.
C29_WindowChangesOnlyOnSuccess ==
    [][/\ \A t \in DOMAIN tasks :
             TaskStep(t) =>
                 IF tasks'[t].pc = "returned"
                 THEN /\ tasks[t].pc = "audited"
                      /\ recent_alerts' = append_recent(recent_alerts, tasks[t].alert)
                      /\ stored' = Append(stored, tasks[t].alert)
                      /\ result'.kind = "triage"
                      /\ result'.alert = tasks[t].alert
                      /\ "correlated_alerts" \in DOMAIN tasks[t]
                      /\ \A i \in DOMAIN tasks[t].correlated_alerts :
                             AlertObj[tasks[t].correlated_alerts[i]].SystemAlertId
                                 # AlertObj[tasks[t].alert].SystemAlertId
                 ELSE /\ recent_alerts' = recent_alerts
                      /\ stored' = stored
       /\ (\A t \in DOMAIN tasks : ~TaskStep(t)) => recent_alerts' = recent_alerts
       /\ \A t \in DOMAIN tasks : tasks[t].pc \in {"returned", "raised"} => ~TaskStep(t)
       /\ NothingStored =>
             \E n \in ConcPrefill : recent_alerts = Rep(ConcPrefillAlert, n)
      ]_vars

\* one call has raised and left the window alone, another call has returned
\* and stored its alert
C29_Witness ==
    /\ Len(tasks) = 2
    /\ tasks[1].pc = "raised"
    /\ tasks[2].pc = "returned"
    /\ stored # <<>>
    /\ Occurrences(stored, tasks[1].alert) = 0
    /\ Occurrences(recent_alerts, tasks[2].alert) = 1

-----------------------------------------------------------------------------
(* The priority AlertTriageAgentV2._parse_response extracts                 *)

\* the priority each decision brings when the response names none
DecisionDefaultPriority ==
    [EscalateToIncident |-> "High", CorrelateWithExisting |-> "Medium",
     MarkAsFalsePositive |-> "Low", RequireHumanReview |-> "Medium"]

\* C30: the priority produced by AlertTriageAgentV2._parse_response is
\* Critical if the response contains 'critical' (whatever the decision
\* keywords are); otherwise High if it contains both 'high' and 'priority';
\* otherwise Low if it contains both 'low' and 'priority'; otherwise the
\* default of the parsed decision (EscalateToIncident -> High,
\* CorrelateWithExisting -> Medium, MarkAsFalsePositive -> Low,
\* RequireHumanReview -> Medium).
C30_ParsedPriority ==
    ParseDone =>
        LET critical == py_in(kw_critical, ResponseLower)
            high == py_in(kw_high, ResponseLower)
            low == py_in(kw_low, ResponseLower)
            priority == py_in(kw_priority, ResponseLower)
        IN  decide_out.Priority =
                CASE critical -> "Critical"
                  [] ~critical /\ high /\ priority -> "High"
                  [] ~critical /\ ~(high /\ priority) /\ low /\ priority -> "Low"
                  [] OTHER -> DecisionDefaultPriority[decide_out.TriageDecision]

\* a response that says 'high' without 'priority' and names no decision:
\* RequireHumanReview with its default Medium
C30_Witness ==
    /\ ParseDone
    /\ py_in(kw_high, ResponseLower)
    /\ ~py_in(kw_priority, ResponseLower)
    /\ ~py_in(kw_critical, ResponseLower)
    /\ decide_out.TriageDecision = "RequireHumanReview"
    /\ decide_out.Priority = "Medium"

=============================================================================
